---- MODULE Spec2Model ----
(***************************************************************************)
(* Verification model of NexAU-harbor: the complete_task termination        *)
(* middleware driven by the agent loop, the context-compaction middleware   *)
(* and the replace tool.                                                    *)
(***************************************************************************)
EXTENDS Integers, Sequences, FiniteSets, TLC

VARIABLES
    \* ---- termination protocol (complete_task_hook.py) and the agent loop
    mw,               \* CompleteTaskMiddleware instance fields
    pc,               \* position of the agent loop
    conv,             \* the run's conversation (message tags)
    sent,             \* message list handed to the model on the current turn
    parsed,           \* parsed response of the current turn (after hooks)
    emitted,          \* tool calls the model emitted on the current turn
    force_continue,   \* force_continue of the after_model result
    terminate_reason, \* AgentState.terminate_reason
    turn_count,       \* turns started in the current run
    runs,             \* runs started on this middleware instance
    dispatched,       \* tool messages appended on the current turn
    hist,             \* kinds of the responses of the current run, oldest first
    \* ---- context compaction (compact_context_hook.py)
    config,           \* configuration of the compaction middleware
    cmsgs,            \* the conversation the middleware is run on
    cpending,         \* tool calls of the last assistant message not yet answered
    cnext,            \* next fresh tool-call id
    cappended,        \* messages appended to the conversation so far
    cinput,           \* message list given to the last before_model call
    clast,            \* last step: "append", "compacted" or "unchanged"
    crepeat,          \* the last before_model call ran on a compaction's own output
    ctin,             \* argument of the last _truncate_tool_outputs call
    ctout,            \* result of the last _truncate_tool_outputs call
    compaction_count, \* CompactContextMiddleware.compaction_count
    \* ---- the replace tool (tool_impl/replace.py)
    file,             \* the file at file_path: whether it exists, and its bytes
    rpre,             \* the file before the last replace call
    rcall,            \* arguments of the last replace call
    rresponse,        \* what the last replace call returned
    \* ---- the write_file tool (tool_impl/write_file.py)
    wtarget,          \* what is at file_path: nothing, a file with its bytes, or a directory
    wpre,             \* what was at file_path before the last write_file call
    wcontent,         \* the content argument of the last write_file call
    wresponse,        \* what the last write_file call returned
    \* ---- the read_file tool (tool_impl/read_file.py)
    rdfile,           \* what is at file_path for read_file
    rdstage,          \* "start", "first" after a read_file call, "second" after the follow-up call
    rdargs,           \* offset and limit of the first read_file call
    rdfirst,          \* what the first read_file call returned
    rdsecond,         \* what the follow-up read_file call returned
    \* ---- the list_directory tool (tool_impl/list_directory.py)
    lsdir,            \* what is at dir_path: nothing, a file, or a directory with its entries
    lsargs,           \* ignore, limit and offset of the last list_directory call
    lsresult,         \* what the last list_directory call returned
    \* ---- the search_file_content tool (tool_impl/search_file_content.py)
    srenv,            \* what a search_file_content call meets: its arguments, what git grep and grep print, the files under the search root
    srresult,         \* what the last search_file_content call returned
    \* ---- the write_todos tool (code_agent_gemini_cli/tool_impl/write_todos.py)
    tdtodos,          \* the todos argument of the write_todos call
    tdresult,         \* what the write_todos call returned
    \* ---- the folder-structure scanner (cli.py, read_full_structure)
    fstree,           \* the directory tree under root_path: what each path is
    fsargs,           \* max_items and ignored_folders of the read_full_structure call
    fsphase,          \* where the call stands: not started, in the while loop, returned
    fsqueue,          \* queue: the folders waiting to be read, as paths below the root
    fsprocessed,      \* processed_paths
    fscount,          \* current_item_count
    fsnodes,          \* the FullFolderInfo nodes built so far, by path below the root
    \* ---- the run_shell_command tool (tool_impl/run_shell_command.py), foreground execution
    shargs,           \* the arguments of the run_shell_command call
    shphase,          \* where the call stands
    shprocs,          \* the processes of the spawned process group: whether each runs, and what SIGTERM does to it
    shsignals,        \* the signals the call has sent to the process group, in order
    shflags,          \* the locals aborted and timeout_triggered
    shresult,         \* what the call returned
    \* ---- the save_memory tool (tool_impl/save_memory.py)
    memfile,          \* the memory file
    mempre,           \* the memory file before the last save_memory call
    memcalls,         \* the save_memory calls made so far: the fact and the user-modified content of each
    memresponse,      \* what the last save_memory call returned
    \* ---- the tool functions as callables (tool_impl/*.py): what escapes them
    tlcall,           \* the tool call under way: the tool, its limit argument and the exception its body meets
    tlout,            \* how the call ended: not yet, returned (with or without an error) or raised
    \* ---- the checks of read_file before it reads (tool_impl/read_file.py)
    szfile,           \* the path read_file is called on: what is there, its size in bytes and its extension
    szresult,         \* what read_file returned for it: the error type and the kind of content
    \* ---- the strategies of replace in the order it tries them (tool_impl/replace.py)
    cscall,           \* the content read from the file, normalised, and the old_string and new_string of the call
    csstrategy,       \* the strategy replace tried last; empty before the first
    cstried,          \* the strategies tried so far, in order
    csresult,         \* what the strategy tried last returned
    csdone,           \* whether replace has gone on to the occurrence check
    \* ---- the strategies of search_file_content in the order it tries them (tool_impl/search_file_content.py)
    scenv,            \* what the search call finds: whether git grep and grep can run, what each prints, and the files of the tree
    scstrategy,       \* strategy_used; none before a strategy has given matches
    scran,            \* the strategies called so far, in order
    scmatches,        \* matches: None, or the list the strategy called last returned
    scdone,           \* whether search_file_content has gone on to build its result
    \* ---- two save_memory calls on one memory file, step by step (tool_impl/save_memory.py)
    mrfile,           \* the memory file on disk
    mrpc,             \* where each of the two calls stands: start, computed, opened, returned
    mrfact,           \* the fact of each call
    mrnew,            \* new_content of each call, once computed
    mrlast,           \* the call that wrote to the file last; 0 before any write
    \* ---- paging through a directory with list_directory (tool_impl/list_directory.py)
    pgdir,            \* the directory listed
    pgargs,           \* ignore, limit and offset of the latest call
    pgfirst,          \* the offset of the first call
    pgresult,         \* the result of the latest call
    pgvisited,        \* the entries returned so far, in the order returned
    pgcalls,          \* the number of calls made
    \* ---- replace and the filesystem around its target (tool_impl/replace.py)
    dkfs,             \* the parent directory of the target (whether it exists) and the target file
    dkpre,            \* the same before the last call
    dkcall,           \* the arguments of the last call
    dkresponse,       \* the response of the last call
    \* ---- hook invocations on one CompleteTaskMiddleware instance (complete_task_hook.py)
    hkmw,             \* the fields of the middleware instance
    hkseen,           \* the kinds of the responses after_model was called with, oldest first
    hklast,           \* the hook called last: none, before_model or after_model
    hkwarned          \* whether the latest before_model call added the grace warning

termVars == <<mw, pc, conv, sent, parsed, emitted, force_continue,
              terminate_reason, turn_count, runs, dispatched, hist>>

compactVars == <<config, cmsgs, cpending, cnext, cappended, cinput, clast,
                 crepeat, ctin, ctout, compaction_count>>

replaceVars == <<file, rpre, rcall, rresponse>>

writeVars == <<wtarget, wpre, wcontent, wresponse>>

readVars == <<rdfile, rdstage, rdargs, rdfirst, rdsecond>>

listVars == <<lsdir, lsargs, lsresult>>

searchVars == <<srenv, srresult>>

todoVars == <<tdtodos, tdresult>>

treeVars == <<fstree, fsargs, fsphase, fsqueue, fsprocessed, fscount, fsnodes>>

shellVars == <<shargs, shphase, shprocs, shsignals, shflags, shresult>>

memoryVars == <<memfile, mempre, memcalls, memresponse>>

totalVars == <<tlcall, tlout>>

sizeVars == <<szfile, szresult>>

cascadeVars == <<cscall, csstrategy, cstried, csresult, csdone>>

searchCascadeVars == <<scenv, scstrategy, scran, scmatches, scdone>>

raceVars == <<mrfile, mrpc, mrfact, mrnew, mrlast>>

pageVars == <<pgdir, pgargs, pgfirst, pgresult, pgvisited, pgcalls>>

diskVars == <<dkfs, dkpre, dkcall, dkresponse>>

hookVars == <<hkmw, hkseen, hklast, hkwarned>>

vars == <<termVars, compactVars, replaceVars, writeVars, readVars, listVars,
          searchVars, todoVars, treeVars, shellVars, memoryVars, totalVars,
          sizeVars, cascadeVars, searchCascadeVars, raceVars, pageVars,
          diskVars, hookVars>>

\* What the steps of each subsystem leave alone.
TermFrame == UNCHANGED <<compactVars, replaceVars, writeVars, readVars,
                         listVars, searchVars, todoVars, treeVars, shellVars,
                         memoryVars, totalVars, sizeVars, cascadeVars,
                         searchCascadeVars, raceVars, pageVars, diskVars,
                         hookVars>>

CompactFrame == UNCHANGED <<termVars, replaceVars, writeVars, readVars,
                            listVars, searchVars, todoVars, treeVars,
                            shellVars, memoryVars, totalVars, sizeVars,
                            cascadeVars, searchCascadeVars, raceVars, pageVars,
                            diskVars, hookVars>>

ReplaceFrame == UNCHANGED <<termVars, compactVars, writeVars, readVars,
                            listVars, searchVars, todoVars, treeVars,
                            shellVars, memoryVars, totalVars, sizeVars,
                            cascadeVars, searchCascadeVars, raceVars, pageVars,
                            diskVars, hookVars>>

WriteFrame == UNCHANGED <<termVars, compactVars, replaceVars, readVars,
                          listVars, searchVars, todoVars, treeVars, shellVars,
                          memoryVars, totalVars, sizeVars, cascadeVars,
                          searchCascadeVars, raceVars, pageVars, diskVars,
                          hookVars>>

ReadFrame == UNCHANGED <<termVars, compactVars, replaceVars, writeVars,
                         listVars, searchVars, todoVars, treeVars, shellVars,
                         memoryVars, totalVars, sizeVars, cascadeVars,
                         searchCascadeVars, raceVars, pageVars, diskVars,
                         hookVars>>

ListFrame == UNCHANGED <<termVars, compactVars, replaceVars, writeVars,
                         readVars, searchVars, todoVars, treeVars, shellVars,
                         memoryVars, totalVars, sizeVars, cascadeVars,
                         searchCascadeVars, raceVars, pageVars, diskVars,
                         hookVars>>

SearchFrame == UNCHANGED <<termVars, compactVars, replaceVars, writeVars,
                           readVars, listVars, todoVars, treeVars, shellVars,
                           memoryVars, totalVars, sizeVars, cascadeVars,
                           searchCascadeVars, raceVars, pageVars, diskVars,
                           hookVars>>

TodoFrame == UNCHANGED <<termVars, compactVars, replaceVars, writeVars,
                         readVars, listVars, searchVars, treeVars, shellVars,
                         memoryVars, totalVars, sizeVars, cascadeVars,
                         searchCascadeVars, raceVars, pageVars, diskVars,
                         hookVars>>

TreeFrame == UNCHANGED <<termVars, compactVars, replaceVars, writeVars,
                         readVars, listVars, searchVars, todoVars, shellVars,
                         memoryVars, totalVars, sizeVars, cascadeVars,
                         searchCascadeVars, raceVars, pageVars, diskVars,
                         hookVars>>

ShellFrame == UNCHANGED <<termVars, compactVars, replaceVars, writeVars,
                          readVars, listVars, searchVars, todoVars, treeVars,
                          memoryVars, totalVars, sizeVars, cascadeVars,
                          searchCascadeVars, raceVars, pageVars, diskVars,
                          hookVars>>

MemoryFrame == UNCHANGED <<termVars, compactVars, replaceVars, writeVars,
                           readVars, listVars, searchVars, todoVars, treeVars,
                           shellVars, totalVars, sizeVars, cascadeVars,
                           searchCascadeVars, raceVars, pageVars, diskVars,
                           hookVars>>

TotalFrame == UNCHANGED <<termVars, compactVars, replaceVars, writeVars,
                          readVars, listVars, searchVars, todoVars, treeVars,
                          shellVars, memoryVars, sizeVars, cascadeVars,
                          searchCascadeVars, raceVars, pageVars, diskVars,
                          hookVars>>

SizeFrame == UNCHANGED <<termVars, compactVars, replaceVars, writeVars,
                         readVars, listVars, searchVars, todoVars, treeVars,
                         shellVars, memoryVars, totalVars, cascadeVars,
                         searchCascadeVars, raceVars, pageVars, diskVars,
                         hookVars>>

CascadeFrame == UNCHANGED <<termVars, compactVars, replaceVars, writeVars,
                            readVars, listVars, searchVars, todoVars, treeVars,
                            shellVars, memoryVars, totalVars, sizeVars,
                            searchCascadeVars, raceVars, pageVars, diskVars,
                            hookVars>>

SearchCascadeFrame == UNCHANGED <<termVars, compactVars, replaceVars,
                                  writeVars, readVars, listVars, searchVars,
                                  todoVars, treeVars, shellVars, memoryVars,
                                  totalVars, sizeVars, cascadeVars, raceVars,
                                  pageVars, diskVars, hookVars>>

RaceFrame == UNCHANGED <<termVars, compactVars, replaceVars, writeVars,
                         readVars, listVars, searchVars, todoVars, treeVars,
                         shellVars, memoryVars, totalVars, sizeVars,
                         cascadeVars, searchCascadeVars, pageVars, diskVars,
                         hookVars>>

PageFrame == UNCHANGED <<termVars, compactVars, replaceVars, writeVars,
                         readVars, listVars, searchVars, todoVars, treeVars,
                         shellVars, memoryVars, totalVars, sizeVars,
                         cascadeVars, searchCascadeVars, raceVars, diskVars,
                         hookVars>>

DiskFrame == UNCHANGED <<termVars, compactVars, replaceVars, writeVars,
                         readVars, listVars, searchVars, todoVars, treeVars,
                         shellVars, memoryVars, totalVars, sizeVars,
                         cascadeVars, searchCascadeVars, raceVars, pageVars,
                         hookVars>>

HookFrame == UNCHANGED <<termVars, compactVars, replaceVars, writeVars,
                         readVars, listVars, searchVars, todoVars, treeVars,
                         shellVars, memoryVars, totalVars, sizeVars,
                         cascadeVars, searchCascadeVars, raceVars, pageVars,
                         diskVars>>

\* ------------------------------------------------------------------ bounds
MaxCalls == 2
MaxTurns == 3
MaxRuns == 2
MaxMsgs == 4
MaxToolCalls == 3
MaxCompactions == 2
MaxFileLen == 2
MaxWriteLen == 2
MaxReadLen == 4
MaxOffset == 2
MaxLimit == 2
MaxOutputLines == 2
MaxTreeFiles == 2
MaxTodos == 3
MaxItems == 4
MaxProcs == 3
MaxMemoryLines == 2
MaxSaves == 2

\* ------------------------------------------------------- helper operators
Last(s) == s[Len(s)]

Range(s) == {s[i] : i \in 1..Len(s)}

SeqsUpTo(S, n) == UNION {[1..k -> S] : k \in 0..n}

\* ============================================================================
\* Termination protocol: CompleteTaskMiddleware
\* ============================================================================
COMPLETE_TASK_TOOL_NAME == "complete_task"

NoParam == "<absent>"

\* A tool call: its name and the "result" entry of its parameters (NoParam when
\* the parameters carry no "result").
ToolCalls ==
    [tool_name : {COMPLETE_TASK_TOOL_NAME}, result : {"r1", "", NoParam}]
      \cup [tool_name : {"read_file"}, result : {NoParam}]

\* parsed_response: absent (None), or a response with a tool-call list.
NoResponse == [present |-> FALSE, tool_calls |-> <<>>]

Responses ==
    {NoResponse} \cup [present : {TRUE}, tool_calls : SeqsUpTo(ToolCalls, MaxCalls)]

GraceWarning == "grace_warning"

\* CompleteTaskMiddleware.__init__
MiddlewareInit ==
    [task_completed |-> FALSE, final_result |-> "", no_tool_call_count |-> 0]

\* call.parameters.get("result", "")
GetResult(call) == IF call.result = NoParam THEN "" ELSE call.result

\* Index of the first complete_task call of a tool-call list, 0 when none.
FirstCompleteTask(calls) ==
    IF \E i \in 1..Len(calls) : calls[i].tool_name = COMPLETE_TASK_TOOL_NAME
    THEN CHOOSE i \in 1..Len(calls) :
           /\ calls[i].tool_name = COMPLETE_TASK_TOOL_NAME
           /\ \A j \in 1..(i - 1) : calls[j].tool_name # COMPLETE_TASK_TOOL_NAME
    ELSE 0

\* CompleteTaskMiddleware.before_model: the message list after the hook.
before_model(m, messages) ==
    IF m.no_tool_call_count = 1
    THEN Append(messages, GraceWarning)
    ELSE messages

\* Mutant: a turn without tool calls always forces continuation.
after_model_NoGraceLimit(m, p) ==
    LET k == FirstCompleteTask(p.tool_calls) IN
    IF ~p.present \/ (k = 0 /\ Len(p.tool_calls) = 0)
    THEN [mw |-> [m EXCEPT !.no_tool_call_count = @ + 1],
          parsed |-> p,
          force_continue |-> TRUE]
    ELSE IF k > 0
    THEN [mw |-> [m EXCEPT !.task_completed = TRUE,
                           !.final_result = GetResult(p.tool_calls[k])],
          parsed |-> [p EXCEPT !.tool_calls = <<>>],
          force_continue |-> FALSE]
    ELSE [mw |-> [m EXCEPT !.no_tool_call_count = 0],
          parsed |-> p,
          force_continue |-> FALSE]

\* CompleteTaskMiddleware.after_model: the new instance fields, the parsed
\* response handed on, and the force_continue flag of the HookResult.
after_model(m, p) ==
    IF ~p.present
    THEN LET n == m.no_tool_call_count + 1 IN
         [mw |-> [m EXCEPT !.no_tool_call_count = n],
          parsed |-> p,
          force_continue |-> ~(n >= 2)]
    ELSE LET k == FirstCompleteTask(p.tool_calls) IN
         IF k > 0
         THEN [mw |-> [m EXCEPT !.task_completed = TRUE,
                                !.final_result = GetResult(p.tool_calls[k])],
               parsed |-> [p EXCEPT !.tool_calls = <<>>],
               force_continue |-> FALSE]
         ELSE IF Len(p.tool_calls) > 0
         THEN [mw |-> [m EXCEPT !.no_tool_call_count = 0],
               parsed |-> p,
               force_continue |-> FALSE]
         ELSE LET n == m.no_tool_call_count + 1 IN
              [mw |-> [m EXCEPT !.no_tool_call_count = n],
               parsed |-> p,
               force_continue |-> ~(n >= 2)]

\* CompleteTaskMiddleware.after_tool
after_tool(m, tool_name) ==
    IF tool_name = COMPLETE_TASK_TOOL_NAME
    THEN [m EXCEPT !.task_completed = TRUE]
    ELSE m

\* Kind of a response as the model emitted it.
KindOf(p) ==
    IF ~p.present \/ Len(p.tool_calls) = 0 THEN "none"
    ELSE IF FirstCompleteTask(p.tool_calls) > 0 THEN "complete"
    ELSE "tools"

\* ---------------------------------------------------------------- agent loop
TermInit ==
    /\ mw = MiddlewareInit
    /\ pc = "idle"
    /\ conv = <<>>
    /\ sent = <<>>
    /\ parsed = NoResponse
    /\ emitted = <<>>
    /\ force_continue = FALSE
    /\ terminate_reason = "NONE"
    /\ turn_count = 0
    /\ runs = 0
    /\ dispatched = 0
    /\ hist = <<>>

\* run(): a fresh AgentState on the same middleware instance.
StartRun ==
    /\ TermFrame
    /\ pc \in {"idle", "done"}
    /\ runs < MaxRuns
    /\ runs' = runs + 1
    /\ conv' = <<"user_query">>
    /\ sent' = <<>>
    /\ parsed' = NoResponse
    /\ emitted' = <<>>
    /\ force_continue' = FALSE
    /\ terminate_reason' = "NONE"
    /\ turn_count' = 0
    /\ dispatched' = 0
    /\ hist' = <<>>
    /\ pc' = "before_model"
    /\ UNCHANGED mw

\* Step 2 of a turn: the before_model hook threads the message list forward.
BeforeModel ==
    /\ TermFrame
    /\ pc = "before_model"
    /\ turn_count' = turn_count + 1
    /\ conv' = before_model(mw, conv)
    /\ sent' = before_model(mw, conv)
    /\ emitted' = <<>>
    /\ force_continue' = FALSE
    /\ dispatched' = 0
    /\ pc' = "invoke"
    /\ UNCHANGED <<mw, parsed, terminate_reason, runs, hist>>

\* Step 3: the model answers with any parsed response.
Invoke ==
    /\ TermFrame
    /\ pc = "invoke"
    /\ \E p \in Responses :
         /\ parsed' = p
         /\ emitted' = p.tool_calls
         /\ hist' = Append(hist, KindOf(p))
    /\ pc' = "after_model"
    /\ UNCHANGED <<mw, conv, sent, force_continue, terminate_reason, turn_count,
                   runs, dispatched>>

\* Steps 4 and 5: the after_model hook, then the assistant message is appended.
AfterModel ==
    /\ TermFrame
    /\ pc = "after_model"
    /\ LET r == after_model(mw, parsed) IN
         /\ mw' = r.mw
         /\ parsed' = r.parsed
         /\ force_continue' = r.force_continue
    /\ conv' = Append(conv, "assistant")
    /\ pc' = "dispatch"
    /\ UNCHANGED <<sent, emitted, terminate_reason, turn_count, runs, dispatched,
                   hist>>

\* Step 6: the next tool call of the turn is executed, after_tool runs and the
\* tool message is appended.
DispatchTool ==
    /\ TermFrame
    /\ pc = "dispatch"
    /\ Len(parsed.tool_calls) > 0
    /\ mw' = after_tool(mw, Head(parsed.tool_calls).tool_name)
    /\ conv' = Append(conv, "tool")
    /\ parsed' = [parsed EXCEPT !.tool_calls = Tail(@)]
    /\ dispatched' = dispatched + 1
    /\ UNCHANGED <<pc, sent, emitted, force_continue, terminate_reason,
                   turn_count, runs, hist>>

\* Step 7: leave the loop, or start the next turn.
EndTurn ==
    /\ TermFrame
    /\ pc = "dispatch"
    /\ Len(parsed.tool_calls) = 0
    /\ LET natural == dispatched = 0 /\ ~force_continue IN
         IF terminate_reason # "NONE"
         THEN pc' = "done" /\ UNCHANGED terminate_reason
         ELSE IF natural
         THEN pc' = "done" /\ terminate_reason' = "ERROR_NO_COMPLETE_TASK_CALL"
         ELSE IF turn_count >= MaxTurns
         THEN pc' = "done" /\ terminate_reason' = "MAX_TURNS"
         ELSE pc' = "before_model" /\ UNCHANGED terminate_reason
    /\ UNCHANGED <<mw, conv, sent, parsed, emitted, force_continue, turn_count,
                   runs, dispatched, hist>>

TermNext ==
    \/ StartRun
    \/ BeforeModel
    \/ Invoke
    \/ AfterModel
    \/ DispatchTool
    \/ EndTurn

\* ============================================================================
\* Context compaction: CompactContextMiddleware and its aggressive variant
\* ============================================================================
\* A message is a record [role, content, tool_calls, tool_call_id, name].  Its
\* content is a string, held as the sequence of its lines (content.split("\n"),
\* so the empty string is one empty line); a line is [tag, len, n]: len is its
\* length in characters, tag and n tell a line of plain text from the notices
\* the middleware writes.  A tool call is [id, name, args] with args the length
\* of its JSON arguments.
MessageOverhead == 10

TextLine(l) == [tag |-> "text", len |-> l, n |-> <<>>]

EmptyContent == <<TextLine(0)>>

\* len(str(n)) for n >= 0
RECURSIVE Digits(_)
Digits(n) == IF n < 10 THEN 1 ELSE 1 + Digits(n \div 10)

\* len(tool_name)
NameLen(name) ==
    CASE name = "read_file" -> 9
      [] name = "run_cmd" -> 7
      [] OTHER -> 0

RECURSIVE SumLens(_)
SumLens(lines) ==
    IF lines = <<>> THEN 0 ELSE Head(lines).len + SumLens(Tail(lines))

\* len(content): the lines and the newlines between them
ContentLen(lines) == SumLens(lines) + (Len(lines) - 1)

\* default_token_counter
default_token_counter(chars) == IF chars = 0 THEN 0 ELSE chars \div 4

RECURSIVE ToolCallTokens(_)
ToolCallTokens(tcs) ==
    IF tcs = <<>> THEN 0
    ELSE default_token_counter(NameLen(Head(tcs).name))
           + default_token_counter(Head(tcs).args)
           + ToolCallTokens(Tail(tcs))

\* CompactContextMiddleware._count_message_tokens
count_message_tokens(msg) ==
    default_token_counter(ContentLen(msg.content)) + MessageOverhead
      + ToolCallTokens(msg.tool_calls)

\* CompactContextMiddleware._count_messages_tokens
RECURSIVE count_messages_tokens(_)
count_messages_tokens(msgs) ==
    IF msgs = <<>> THEN 0
    ELSE count_message_tokens(Head(msgs)) + count_messages_tokens(Tail(msgs))

\* lines[-k:] as Python evaluates it: the whole list when k = 0
LastLines(lines, k) ==
    IF k = 0 \/ k >= Len(lines) THEN lines
    ELSE SubSeq(lines, Len(lines) - k + 1, Len(lines))

\* The last k characters of a content with more than k characters, as lines.
RECURSIVE TakeTail(_, _)
TakeTail(lines, k) ==
    LET last == lines[Len(lines)] IN
    IF k = 0 THEN <<TextLine(0)>>
    ELSE IF last.len = k THEN <<last>>
    ELSE IF last.len > k THEN <<TextLine(k)>>
    ELSE TakeTail(SubSeq(lines, 1, Len(lines) - 1), k - last.len - 1) \o <<last>>

\* content[-k:] as Python evaluates it: the whole string when k = 0
TailChars(lines, k) ==
    IF k = 0 \/ k >= ContentLen(lines) THEN lines ELSE TakeTail(lines, k)

\* The first k characters of a content with more than k characters, as lines.
RECURSIVE TakeHead(_, _)
TakeHead(lines, k) ==
    LET first == Head(lines) IN
    IF k = 0 THEN <<TextLine(0)>>
    ELSE IF first.len = k THEN <<first>>
    ELSE IF first.len > k THEN <<TextLine(k)>>
    ELSE <<first>> \o TakeHead(Tail(lines), k - first.len - 1)

\* f'[... {n} lines truncated ...]'
LinesTruncatedNotice(n) ==
    [tag |-> "lines_truncated", len |-> 26 + Digits(n), n |-> <<n>>]

\* f'[... truncated to last ~{budget} tokens ...]'
CharsTruncatedNotice(budget) ==
    [tag |-> "chars_truncated", len |-> 36 + Digits(budget), n |-> <<budget>>]

\* f'[Context compacted: {rc} messages (~{rt} tokens) removed. Preserved newest {k} messages.]'
CompactionNotice(rc, rt, k) ==
    [role |-> "system",
     content |-> <<[tag |-> "compacted",
                    len |-> 78 + Digits(rc) + Digits(rt) + Digits(k),
                    n |-> <<rc, rt, k>>]>>,
     tool_calls |-> <<>>, tool_call_id |-> 0, name |-> ""]

\* CompactContextMiddleware._truncate_tool_outputs, the body of its loop: what
\* one message becomes.
TruncateMessage(cfg, msg) ==
    IF msg.role \in {"tool", "function"}
         /\ default_token_counter(ContentLen(msg.content)) > cfg.tool_output_token_budget
    THEN IF Len(msg.content) > cfg.truncate_lines
         THEN [msg EXCEPT !.content =
                 <<LinesTruncatedNotice(Len(msg.content) - cfg.truncate_lines)>>
                   \o LastLines(msg.content, cfg.truncate_lines)]
         ELSE [msg EXCEPT !.content =
                 <<CharsTruncatedNotice(cfg.tool_output_token_budget)>>
                   \o TailChars(msg.content, cfg.tool_output_token_budget * 4)]
    ELSE msg

\* CompactContextMiddleware._truncate_tool_outputs
truncate_tool_outputs(cfg, msgs) ==
    [i \in 1..Len(msgs) |-> TruncateMessage(cfg, msgs[i])]

IsSystem(msg) == msg.role = "system"

IsConversational(msg) == msg.role # "system"

\* Mutant: the walk keeps a message only while the total stays under the budget.
RECURSIVE PreserveWalk_Strict(_, _, _, _)
PreserveWalk_Strict(msgs, budget, kept, acc) ==
    IF kept = Len(msgs) THEN kept
    ELSE LET t == count_message_tokens(msgs[Len(msgs) - kept]) IN
         IF acc + t < budget
         THEN PreserveWalk_Strict(msgs, budget, kept + 1, acc + t)
         ELSE kept

\* The walk of _compress_history over reversed(truncated_conversation): how
\* many of the newest messages are kept when `kept` of them, of `acc` tokens in
\* all, are kept already.
RECURSIVE PreserveWalk(_, _, _, _)
PreserveWalk(msgs, budget, kept, acc) ==
    IF kept = Len(msgs) THEN kept
    ELSE LET t == count_message_tokens(msgs[Len(msgs) - kept]) IN
         IF acc + t <= budget
         THEN PreserveWalk(msgs, budget, kept + 1, acc + t)
         ELSE kept

\* int(conv_tokens * self.preserve_ratio), the ratio held as num / den
PreserveTokens(cfg, conv_tokens) ==
    (conv_tokens * cfg.preserve_ratio[1]) \div cfg.preserve_ratio[2]

\* The preserved list of _compress_history.
Preserved(cfg, truncated) ==
    LET k == PreserveWalk(truncated, PreserveTokens(cfg, count_messages_tokens(truncated)), 0, 0)
    IN SubSeq(truncated, Len(truncated) - k + 1, Len(truncated))

\* What state_snapshot_generator does when called: it raises, or returns the
\* snapshot text (given by its length).
SnapshotOutcomes ==
    {[raises |-> TRUE, chars |-> 0], [raises |-> FALSE, chars |-> 400]}

SnapshotMessage(chars) ==
    [role |-> "system",
     content |-> <<[tag |-> "snapshot", len |-> chars, n |-> <<>>]>>,
     tool_calls |-> <<>>, tool_call_id |-> 0, name |-> ""]

\* Mutant: the system messages are left out of the assembled result.
compress_history_DropsSystem(cfg, messages, snap) ==
    LET conversation == SelectSeq(messages, IsConversational)
        truncated == [i \in 1..Len(conversation) |-> TruncateMessage(cfg, conversation[i])]
        conv_tokens == count_messages_tokens(truncated)
        preserved == Preserved(cfg, truncated)
    IN <<CompactionNotice(Len(truncated) - Len(preserved),
                          conv_tokens - count_messages_tokens(preserved),
                          Len(preserved))>> \o preserved

\* CompactContextMiddleware._compress_history; snap is what the snapshot
\* generator does if it is called.
compress_history(cfg, messages, snap) ==
    LET system_messages == SelectSeq(messages, IsSystem)
        conversation == SelectSeq(messages, IsConversational)
        truncated == truncate_tool_outputs(cfg, conversation)
        conv_tokens == count_messages_tokens(truncated)
        preserved == Preserved(cfg, truncated)
        removed_count == Len(truncated) - Len(preserved)
        removed_tokens == conv_tokens - count_messages_tokens(preserved)
    IN IF cfg.enable_state_snapshot /\ cfg.state_snapshot_generator
            /\ ~snap.raises
       THEN system_messages \o <<SnapshotMessage(snap.chars)>> \o preserved
       ELSE system_messages
              \o <<CompactionNotice(removed_count, removed_tokens, Len(preserved))>>
              \o preserved

PreviewMaxChars == 200

\* AggressiveCompactContextMiddleware._get_content_preview; the "..." goes on
\* the end of the last line kept.
get_content_preview(lines) ==
    IF ContentLen(lines) <= PreviewMaxChars THEN lines
    ELSE LET head == TakeHead(lines, PreviewMaxChars)
             k == Len(head)
         IN [head EXCEPT ![k] = TextLine(head[k].len + 3)]

\* label + preview: the label goes in front of the preview's first line
Labelled(tag, labelLen, lines) ==
    [lines EXCEPT ![1] = [tag |-> tag, len |-> labelLen + lines[1].len, n |-> <<>>]]

\* The summary message _collapse_duplicate_tools writes for a run of tool
\* messages.
CollapsedSummary(run) ==
    LET name == run[1].name IN
    [role |-> "tool",
     content |->
        <<[tag |-> "collapsed",
           len |-> 31 + Digits(Len(run)) + NameLen(name),
           n |-> <<Len(run)>>]>>
          \o Labelled("first", 7, get_content_preview(run[1].content))
          \o Labelled("last", 6, get_content_preview(run[Len(run)].content)),
     tool_calls |-> <<>>,
     tool_call_id |-> run[Len(run)].tool_call_id,
     name |-> name]

\* j of _collapse_duplicate_tools: the first index after i whose message does
\* not continue the run of tool messages named like messages[i].
RECURSIVE RunEnd(_, _, _)
RunEnd(messages, name, j) ==
    IF j <= Len(messages) /\ messages[j].role = "tool" /\ messages[j].name = name
    THEN RunEnd(messages, name, j + 1)
    ELSE j

\* AggressiveCompactContextMiddleware._collapse_duplicate_tools, from index i on
RECURSIVE CollapseFrom(_, _)
CollapseFrom(messages, i) ==
    IF i > Len(messages) THEN <<>>
    ELSE LET msg == messages[i]
             j == RunEnd(messages, msg.name, i + 1)
         IN IF msg.role = "tool" /\ j - i > 2
            THEN <<CollapsedSummary(SubSeq(messages, i, j - 1))>> \o CollapseFrom(messages, j)
            ELSE <<msg>> \o CollapseFrom(messages, i + 1)

collapse_duplicate_tools(messages) == CollapseFrom(messages, 1)

\* _compress_history of the configured class: the aggressive variant collapses
\* runs of tool messages first.
class_compress_history(cfg, messages, snap) ==
    IF cfg.aggressive /\ cfg.collapse_duplicate_tools
    THEN compress_history(cfg, collapse_duplicate_tools(messages), snap)
    ELSE compress_history(cfg, messages, snap)

\* The conversation _compress_history hands to _truncate_tool_outputs.
TruncationInput(cfg, messages) ==
    SelectSeq(IF cfg.aggressive /\ cfg.collapse_duplicate_tools
              THEN collapse_duplicate_tools(messages)
              ELSE messages,
              IsConversational)

\* CompactContextMiddleware.before_model: whether the hook returned a modified
\* list, and the list the model is called with.
compact_before_model(cfg, messages, snap) ==
    IF messages = <<>> THEN [modified |-> FALSE, messages |-> messages]
    ELSE IF count_messages_tokens(messages) < cfg.threshold_tokens
    THEN [modified |-> FALSE, messages |-> messages]
    ELSE LET compacted == class_compress_history(cfg, messages, snap) IN
         IF compacted # messages
         THEN [modified |-> TRUE, messages |-> compacted]
         ELSE [modified |-> FALSE, messages |-> messages]

\* --------------------------------------------------- compaction: the inputs
Message(role, content, tool_calls, id, name) ==
    [role |-> role, content |-> content, tool_calls |-> tool_calls,
     tool_call_id |-> id, name |-> name]

\* Configurations of the middleware.  threshold_tokens is
\* int(max_context_tokens * compression_threshold); preserve_ratio is num / den.
\* The base class and the aggressive class under three settings, the base
\* class with a snapshot generator, and the base class keeping no line.
Settings ==
    {[threshold_tokens |-> t[1], preserve_ratio |-> t[2], aggressive |-> a,
      snapshot |-> FALSE, truncate_lines |-> 2] :
        t \in {<<0, <<3, 10>>>>, <<100, <<3, 10>>>>, <<100, <<1, 1>>>>},
        a \in BOOLEAN}
      \cup {[threshold_tokens |-> 100, preserve_ratio |-> <<3, 10>>,
             aggressive |-> FALSE, snapshot |-> TRUE, truncate_lines |-> 2],
            [threshold_tokens |-> 100, preserve_ratio |-> <<1, 1>>,
             aggressive |-> FALSE, snapshot |-> FALSE, truncate_lines |-> 0]}

Configs ==
    {[threshold_tokens |-> c.threshold_tokens, preserve_ratio |-> c.preserve_ratio,
      tool_output_token_budget |-> 20, truncate_lines |-> c.truncate_lines,
      enable_state_snapshot |-> c.snapshot, state_snapshot_generator |-> c.snapshot,
      aggressive |-> c.aggressive, collapse_duplicate_tools |-> c.aggressive] :
        c \in Settings}

SystemPrompts ==
    {Message("system", <<TextLine(l)>>, <<>>, 0, "") : l \in {40, 400}}

UserMessages ==
    {Message("user", <<TextLine(l)>>, <<>>, 0, "") : l \in {8, 800}}

\* Tool messages: role and output.  A short output, one of four long lines, one
\* whose first line is empty (under the legacy role), and one long single line.
ToolResults ==
    {[role |-> "tool", content |-> <<TextLine(8)>>],
     [role |-> "tool",
      content |-> <<TextLine(40), TextLine(40), TextLine(40), TextLine(40)>>],
     [role |-> "function", content |-> <<TextLine(0), TextLine(50), TextLine(50)>>],
     [role |-> "tool", content |-> <<TextLine(400)>>]}

\* The tools an assistant message calls: all calls to read_file, or run_cmd and
\* read_file in turn.
CallNames(mixed, i) == IF mixed /\ i % 2 = 1 THEN "run_cmd" ELSE "read_file"

\* An assistant message with k tool calls, ids first .. first + k - 1.
AssistantMessage(mixed, first, k) ==
    Message("assistant", <<TextLine(20)>>,
            [i \in 1..k |-> [id |-> first + i - 1, name |-> CallNames(mixed, i),
                             args |-> 8]],
            0, "")

\* ------------------------------------------------- compaction: state machine
CompactInit ==
    /\ config \in Configs
    /\ cmsgs \in {<<m>> : m \in SystemPrompts}
    /\ cpending = <<>>
    /\ cnext = 1
    /\ cappended = 0
    /\ cinput = <<>>
    /\ clast = "append"
    /\ crepeat = FALSE
    /\ ctin = <<>>
    /\ ctout = <<>>
    /\ compaction_count = 0

\* The conversation grows until the hook is first called.
Appended(m) ==
    /\ clast = "append"
    /\ cappended < MaxMsgs
    /\ cappended' = cappended + 1
    /\ cmsgs' = Append(cmsgs, m)
    /\ clast' = "append"
    /\ crepeat' = FALSE
    /\ UNCHANGED <<config, cinput, ctin, ctout, compaction_count>>

\* The loop appends the user's message.
AppendUser ==
    /\ CompactFrame
    /\ cpending = <<>>
    /\ \E m \in UserMessages : Appended(m)
    /\ UNCHANGED <<cpending, cnext>>

\* The loop appends the assistant message of a turn, with its tool calls.
AppendAssistant ==
    /\ CompactFrame
    /\ cpending = <<>>
    /\ \E mixed \in BOOLEAN, k \in 0..MaxToolCalls :
         LET m == AssistantMessage(mixed, cnext, k) IN
         /\ mixed => k = MaxToolCalls
         /\ Appended(m)
         /\ cpending' = m.tool_calls
         /\ cnext' = cnext + k

\* The loop appends the tool message answering the next call of the turn.
AppendToolResult ==
    /\ CompactFrame
    /\ cpending # <<>>
    /\ \E r \in ToolResults :
         Appended(Message(r.role, r.content, <<>>, Head(cpending).id,
                          Head(cpending).name))
    /\ cpending' = Tail(cpending)
    /\ UNCHANGED cnext

\* before_model of the compaction middleware at the start of a turn; the loop
\* goes on with the list the hook returned.
CompactBeforeModel ==
    /\ CompactFrame
    /\ cpending = <<>>
    /\ compaction_count < MaxCompactions
    /\ \E snap \in SnapshotOutcomes :
         LET r == compact_before_model(config, cmsgs, snap) IN
         /\ cmsgs' = r.messages
         /\ clast' = IF r.modified THEN "compacted" ELSE "unchanged"
         /\ compaction_count' = IF r.modified THEN compaction_count + 1
                                ELSE compaction_count
         /\ ctin' = IF r.modified THEN TruncationInput(config, cmsgs) ELSE ctin
         /\ ctout' = IF r.modified
                     THEN truncate_tool_outputs(config, TruncationInput(config, cmsgs))
                     ELSE ctout
    /\ cinput' = cmsgs
    /\ crepeat' = (clast = "compacted")
    /\ UNCHANGED <<config, cpending, cnext, cappended>>

CompactNext ==
    \/ AppendUser
    \/ AppendAssistant
    \/ AppendToolResult
    \/ CompactBeforeModel

\* The compaction subsystem at rest.
CompactIdle ==
    /\ config = CHOOSE c \in Configs : TRUE
    /\ cmsgs = <<>>
    /\ cpending = <<>>
    /\ cnext = 1
    /\ cappended = 0
    /\ cinput = <<>>
    /\ clast = "append"
    /\ crepeat = FALSE
    /\ ctin = <<>>
    /\ ctout = <<>>
    /\ compaction_count = 0

\* ============================================================================
\* The replace tool (tool_impl/replace.py)
\* ============================================================================
\* Text is a sequence of characters.  The alphabet: two letters, the space,
\* the line feed, the carriage return and one of the delimiters.
LF == <<"\n">>

CRLF == <<"\r", "\n">>

\* str.isspace of one character
IsSpace(c) == c \in {" ", "\n", "\r"}

\* s[i:].startswith(sub), i counted from 1
StartsWith(s, i, sub) ==
    /\ i + Len(sub) - 1 <= Len(s)
    /\ SubSeq(s, i, i + Len(sub) - 1) = sub

\* str.count(sub) from position i on: occurrences that do not overlap
RECURSIVE CountFrom(_, _, _)
CountFrom(s, sub, i) ==
    IF i + Len(sub) - 1 > Len(s) THEN 0
    ELSE IF StartsWith(s, i, sub) THEN 1 + CountFrom(s, sub, i + Len(sub))
    ELSE CountFrom(s, sub, i + 1)

StrCount(s, sub) == CountFrom(s, sub, 1)

\* str.replace(old, new, count) from position i on; a negative count replaces
\* every occurrence
RECURSIVE ReplaceFrom(_, _, _, _, _)
ReplaceFrom(s, old, new, i, count) ==
    IF count = 0 \/ i + Len(old) - 1 > Len(s) THEN SubSeq(s, i, Len(s))
    ELSE IF StartsWith(s, i, old)
         THEN new \o ReplaceFrom(s, old, new, i + Len(old), count - 1)
    ELSE <<s[i]>> \o ReplaceFrom(s, old, new, i + 1, count)

StrReplace(s, old, new, count) == ReplaceFrom(s, old, new, 1, count)

StrReplaceAll(s, old, new) == StrReplace(s, old, new, -1)

\* s.replace("\r\n", "\n")
NormalizeNewlines(s) == StrReplaceAll(s, CRLF, LF)

\* What f.read() returns for a file opened in text mode with the default
\* newline argument: "\r\n" and a lone "\r" both come back as "\n".
ReadText(bytes) == StrReplaceAll(StrReplaceAll(bytes, CRLF, LF), <<"\r">>, LF)

EndsWithNewline(s) == s # <<>> /\ s[Len(s)] = "\n"

\* s.rstrip("\n")
RECURSIVE RStripNewlines(_)
RStripNewlines(s) ==
    IF EndsWithNewline(s) THEN RStripNewlines(SubSeq(s, 1, Len(s) - 1)) ELSE s

\* The length of the longest prefix of s[i:] made of whitespace
RECURSIVE SpaceRun(_, _)
SpaceRun(s, i) ==
    IF i <= Len(s) /\ IsSpace(s[i]) THEN 1 + SpaceRun(s, i + 1) ELSE 0

\* The length of the longest prefix of s[i:] free of whitespace
RECURSIVE WordRun(_, _)
WordRun(s, i) ==
    IF i <= Len(s) /\ ~IsSpace(s[i]) THEN 1 + WordRun(s, i + 1) ELSE 0

\* The leading whitespace of s: group 1 of re.match(r"^(\s*)", s)
LeadingSpace(s) == SubSeq(s, 1, SpaceRun(s, 1))

LStrip(s) == SubSeq(s, SpaceRun(s, 1) + 1, Len(s))

RECURSIVE RStrip(_)
RStrip(s) ==
    IF s # <<>> /\ IsSpace(s[Len(s)]) THEN RStrip(SubSeq(s, 1, Len(s) - 1)) ELSE s

\* str.strip()
Strip(s) == RStrip(LStrip(s))

StripAll(lines) == [k \in 1..Len(lines) |-> Strip(lines[k])]

\* The length of the longest prefix of s free of line feeds
RECURSIVE LineRun(_, _)
LineRun(s, i) ==
    IF i <= Len(s) /\ s[i] # "\n" THEN 1 + LineRun(s, i + 1) ELSE 0

\* s.split("\n")
RECURSIVE SplitLines(_)
SplitLines(s) ==
    LET k == LineRun(s, 1) IN
    IF k = Len(s) THEN <<s>>
    ELSE <<SubSeq(s, 1, k)>> \o SplitLines(SubSeq(s, k + 2, Len(s)))

\* "\n".join(lines)
RECURSIVE JoinLines(_)
JoinLines(lines) ==
    IF Len(lines) = 0 THEN <<>>
    ELSE IF Len(lines) = 1 THEN lines[1]
    ELSE lines[1] \o LF \o JoinLines(Tail(lines))

\* s.split(): the words between runs of whitespace
RECURSIVE SplitWords(_)
SplitWords(s) ==
    LET t == LStrip(s)
        k == WordRun(t, 1)
    IN IF t = <<>> THEN <<>>
       ELSE <<SubSeq(t, 1, k)>> \o SplitWords(SubSeq(t, k + 1, Len(t)))

Indented(indentation, lines) ==
    [k \in 1..Len(lines) |-> indentation \o lines[k]]

\* What a strategy returns: None, or (modified, occurrences)
NoResult == [found |-> FALSE, modified |-> <<>>, occurrences |-> 0]

Result(modified, occurrences) ==
    [found |-> TRUE, modified |-> modified, occurrences |-> occurrences]

\* _detect_line_ending
detect_line_ending(content) ==
    IF \E i \in 1..Len(content) : StartsWith(content, i, CRLF) THEN CRLF ELSE LF

\* _restore_trailing_newline
restore_trailing_newline(original, modified) ==
    LET had_trailing == EndsWithNewline(original) IN
    IF had_trailing /\ ~EndsWithNewline(modified) THEN modified \o LF
    ELSE IF ~had_trailing /\ EndsWithNewline(modified) THEN RStripNewlines(modified)
    ELSE modified

\* _safe_literal_replace: content.replace(old_string, new_string, 1)
safe_literal_replace(content, old_string, new_string) ==
    StrReplace(content, old_string, new_string, 1)

\* _calculate_exact_replacement
calculate_exact_replacement(content, old_string, new_string) ==
    LET normalized_old == NormalizeNewlines(old_string)
        normalized_new == NormalizeNewlines(new_string)
        occurrences == StrCount(content, normalized_old)
    IN IF occurrences > 0
       THEN Result(restore_trailing_newline(content,
                     safe_literal_replace(content, normalized_old, normalized_new)),
                   occurrences)
       ELSE NoResult

\* The while loop of _calculate_flexible_replacement; i is counted from 0.
RECURSIVE FlexibleScan(_, _, _, _, _)
FlexibleScan(source_lines, search, replace_lines, i, occurrences) ==
    IF i > Len(source_lines) - Len(search)
    THEN [source_lines |-> source_lines, occurrences |-> occurrences]
    ELSE LET window == SubSeq(source_lines, i + 1, i + Len(search)) IN
         IF StripAll(window) = search
         THEN LET new_block == Indented(LeadingSpace(window[1]), replace_lines) IN
              FlexibleScan(SubSeq(source_lines, 1, i) \o new_block
                             \o SubSeq(source_lines, i + Len(search) + 1,
                                       Len(source_lines)),
                           search, replace_lines, i + Len(replace_lines),
                           occurrences + 1)
         ELSE FlexibleScan(source_lines, search, replace_lines, i + 1, occurrences)

\* _calculate_flexible_replacement
calculate_flexible_replacement(content, old_string, new_string) ==
    LET normalized_old == NormalizeNewlines(old_string)
        normalized_new == NormalizeNewlines(new_string)
        scan == FlexibleScan(SplitLines(content),
                             StripAll(SplitLines(normalized_old)),
                             SplitLines(normalized_new), 0, 0)
    IN IF scan.occurrences > 0
       THEN Result(restore_trailing_newline(content, JoinLines(scan.source_lines)),
                   scan.occurrences)
       ELSE NoResult

Delimiters == {"(", ")", ":", "[", "]", "{", "}", ">", "<", "="}

\* The delimiters of s each set between two spaces
RECURSIVE SpaceDelimiters(_)
SpaceDelimiters(s) ==
    IF s = <<>> THEN <<>>
    ELSE (IF Head(s) \in Delimiters THEN <<" ", Head(s), " ">> ELSE <<Head(s)>>)
           \o SpaceDelimiters(Tail(s))

\* Where a match of tok1 \s* tok2 \s* ... preceded by \s* and starting at
\* position i of s ends (the position after its last character), 0 if there is
\* none.  No token holds whitespace, so each \s* takes the whole run.
RECURSIVE MatchTokens(_, _, _)
MatchTokens(s, i, tokens) ==
    LET j == i + SpaceRun(s, i) IN
    IF ~StartsWith(s, j, tokens[1]) THEN 0
    ELSE IF Len(tokens) = 1 THEN j + Len(tokens[1])
    ELSE MatchTokens(s, j + Len(tokens[1]), Tail(tokens))

\* The positions where ^ matches under re.MULTILINE
LineStarts(s) == {p \in 1..(Len(s) + 1) : p = 1 \/ s[p - 1] = "\n"}

\* _calculate_regex_replacement
calculate_regex_replacement(content, old_string, new_string) ==
    LET normalized_old == NormalizeNewlines(old_string)
        normalized_new == NormalizeNewlines(new_string)
        tokens == SplitWords(SpaceDelimiters(normalized_old))
        matches == {p \in LineStarts(content) : MatchTokens(content, p, tokens) # 0}
    IN IF tokens = <<>> \/ matches = {} THEN NoResult
       ELSE LET start == CHOOSE p \in matches : \A q \in matches : p <= q
                end == MatchTokens(content, start, tokens)
                indentation == SubSeq(content, start, start + SpaceRun(content, start) - 1)
                new_block == JoinLines(Indented(indentation, SplitLines(normalized_new)))
                modified == SubSeq(content, 1, start - 1) \o new_block
                              \o SubSeq(content, end, Len(content))
            IN Result(restore_trailing_newline(content, modified), 1)

\* A file of the workspace: whether the path exists, and its bytes.
NoFile == [exists |-> FALSE, bytes |-> <<>>]

FileOf(bytes) == [exists |-> TRUE, bytes |-> bytes]

\* The JSON object replace returns: the error type of a failure, the operation
\* of a success, the occurrences it reports and the strategy that matched.
Failure(type, occurrences) ==
    [success |-> FALSE, type |-> type, operation |-> "",
     occurrences |-> occurrences, strategy |-> ""]

Success(operation, occurrences, strategy) ==
    [success |-> TRUE, type |-> "", operation |-> operation,
     occurrences |-> occurrences, strategy |-> strategy]

\* replace(file_path, instruction, old_string, new_string, expected_replacements)
\* on the file f, which the process may read and write: the file afterwards and
\* the response.  expected_replacements is None (given = FALSE) or the integer k.
replace(f, old_string, new_string, expected_replacements) ==
    LET expected == IF expected_replacements.given THEN expected_replacements.k ELSE 1
        current_content == ReadText(f.bytes)
        normalized_content == NormalizeNewlines(current_content)
        original_line_ending == detect_line_ending(current_content)
        exact == calculate_exact_replacement(normalized_content, old_string, new_string)
        flexible == calculate_flexible_replacement(normalized_content, old_string,
                                                   new_string)
        regex == calculate_regex_replacement(normalized_content, old_string, new_string)
        result == IF exact.found THEN exact
                  ELSE IF flexible.found THEN flexible ELSE regex
        strategy == IF exact.found THEN "exact"
                    ELSE IF flexible.found THEN "flexible" ELSE "regex"
        new_content == IF original_line_ending = CRLF
                       THEN StrReplaceAll(result.modified, LF, CRLF)
                       ELSE result.modified
    IN IF old_string = new_string
       THEN [file |-> f, response |-> Failure("EDIT_NO_CHANGE", 0)]
       ELSE IF old_string = <<>> /\ ~f.exists
       THEN [file |-> FileOf(new_string), response |-> Success("create", 0, "")]
       ELSE IF ~f.exists
       THEN [file |-> f, response |-> Failure("FILE_NOT_FOUND", 0)]
       ELSE IF old_string = <<>>
       THEN [file |-> f, response |-> Failure("FILE_EXISTS", 0)]
       ELSE IF ~result.found
       THEN [file |-> f, response |-> Failure("EDIT_NO_OCCURRENCE_FOUND", 0)]
       ELSE IF result.occurrences # expected
       THEN [file |-> f,
             response |-> Failure("EDIT_OCCURRENCE_MISMATCH", result.occurrences)]
       ELSE [file |-> FileOf(new_content),
             response |-> Success("update", result.occurrences, strategy)]

\* ---------------------------------------------------- replace: the inputs
FileChars == {"a", " ", "\n"}

\* Contents with a repeated word, CRLF line endings, a lone carriage return, a
\* delimiter, and indented lines.
SpecialContents ==
    {<<"a", " ", "a">>, <<"a", "b">>,
     <<"a", "\r", "\n", "a", "\r", "\n">>, <<"a", "\r", "b">>,
     <<"a", " ", "=", " ", "b">>, <<" ", "a", "\n", " ", "a">>}

\* The files the tool is called on: no file, the short files and the special ones.
Files ==
    {NoFile} \cup {FileOf(b) : b \in SeqsUpTo(FileChars, MaxFileLen) \cup SpecialContents}

OldStrings ==
    {<<>>, <<"a">>, <<" ", "a">>, <<"a", " ", "b">>, <<"a", "=", "b">>,
     <<"a", "\r", "\n">>, <<"\n">>}

NewStrings == {<<>>, <<"a">>, <<"b">>, <<"b", "\n", "b">>}

\* expected_replacements: None, or an integer
Expectations ==
    {[given |-> FALSE, k |-> 1]} \cup {[given |-> TRUE, k |-> k] : k \in {0, 1, 2}}

NoCall == [old_string |-> <<>>, new_string |-> <<>>,
           expected_replacements |-> [given |-> FALSE, k |-> 1]]

\* rresponse before the first call
NotCalled == Failure("", 0)

\* ------------------------------------------------ replace: state machine
ReplaceInit ==
    /\ file \in Files
    /\ rpre = NoFile
    /\ rcall = NoCall
    /\ rresponse = NotCalled

\* One call of the replace tool on the file, as long as the file is one of Files.
ReplaceCall ==
    /\ ReplaceFrame
    /\ file \in Files
    /\ \E old_string \in OldStrings, new_string \in NewStrings, e \in Expectations :
         LET r == replace(file, old_string, new_string, e) IN
         /\ file' = r.file
         /\ rresponse' = r.response
         /\ rcall' = [old_string |-> old_string, new_string |-> new_string,
                      expected_replacements |-> e]
    /\ rpre' = file

ReplaceNext == ReplaceCall

\* The replace subsystem at rest.
ReplaceIdle ==
    /\ file = NoFile
    /\ rpre = NoFile
    /\ rcall = NoCall
    /\ rresponse = NotCalled

\* ============================================================================
\* The write_file tool (code_agent_gemini_cli/tool_impl/write_file.py)
\* ============================================================================
\* What is at a path: nothing, a regular file with its bytes, or a directory.
Absent == [kind |-> "absent", bytes |-> <<>>]

RegularFile(bytes) == [kind |-> "file", bytes |-> bytes]

Directory == [kind |-> "directory", bytes |-> <<>>]

\* _detect_line_ending of write_file.py
write_detect_line_ending(content) ==
    IF \E i \in 1..Len(content) : StartsWith(content, i, CRLF) THEN CRLF
    ELSE IF \E i \in 1..Len(content) : content[i] = "\n" THEN LF
    ELSE IF \E i \in 1..Len(content) : content[i] = "\r" THEN <<"\r">>
    ELSE LF

WriteFailure(type) == [success |-> FALSE, type |-> type, operation |-> ""]

WriteSuccess(operation) == [success |-> TRUE, type |-> "", operation |-> operation]

\* write_file(file_path, content) with target at file_path: what is at the path
\* afterwards, and the response.  denied: opening the file raises PermissionError.
write_file(target, content, denied) ==
    LET file_exists == target.kind = "file"
        operation == IF file_exists THEN "update" ELSE "create"
        original_content == IF file_exists THEN ReadText(target.bytes) ELSE <<>>
        original_line_ending ==
            IF file_exists THEN write_detect_line_ending(original_content) ELSE LF
        final_content ==
            IF file_exists /\ original_line_ending = CRLF
            THEN StrReplaceAll(StrReplaceAll(content, CRLF, LF), LF, CRLF)
            ELSE content
    IN IF target.kind = "directory"
       THEN [target |-> target, response |-> WriteFailure("TARGET_IS_DIRECTORY")]
       ELSE IF denied
       THEN [target |-> target, response |-> WriteFailure("PERMISSION_DENIED")]
       ELSE [target |-> RegularFile(final_content),
             response |-> WriteSuccess(operation)]

\* ------------------------------------------------- write_file: the inputs
WriteChars == {"a", "\r", "\n"}

WriteTargets ==
    {Absent, Directory} \cup {RegularFile(b) : b \in SeqsUpTo(WriteChars, MaxWriteLen)}

WriteContents == SeqsUpTo(WriteChars, MaxWriteLen)

NotWritten == WriteFailure("")

\* --------------------------------------------- write_file: state machine
WriteInit ==
    /\ wtarget \in WriteTargets
    /\ wpre = Absent
    /\ wcontent = <<>>
    /\ wresponse = NotWritten

\* One call of write_file on the path.
WriteCall ==
    /\ WriteFrame
    /\ \E content \in WriteContents, denied \in BOOLEAN :
         LET r == write_file(wtarget, content, denied) IN
         /\ wtarget' = r.target
         /\ wresponse' = r.response
         /\ wcontent' = content
    /\ wpre' = wtarget

WriteNext == WriteCall

\* The write_file subsystem at rest.
WriteIdle ==
    /\ wtarget = Absent
    /\ wpre = Absent
    /\ wcontent = <<>>
    /\ wresponse = NotWritten

\* ============================================================================
\* The read_file tool (tool_impl/read_file.py)
\* ============================================================================
DEFAULT_LINE_LIMIT == 2000

Min(a, b) == IF a <= b THEN a ELSE b

Max(a, b) == IF a >= b THEN a ELSE b

\* f.readlines() of a file opened in text mode: the lines of the translated
\* text, each with its "\n" (the last one may lack it).
RECURSIVE KeepEndsLines(_)
KeepEndsLines(text) ==
    LET k == LineRun(text, 1) IN
    IF text = <<>> THEN <<>>
    ELSE IF k = Len(text) THEN <<text>>
    ELSE <<SubSeq(text, 1, k + 1)>> \o KeepEndsLines(SubSeq(text, k + 2, Len(text)))

readlines(bytes) == KeepEndsLines(ReadText(bytes))

\* The characters str.splitlines breaks a line at (those of the alphabet)
IsLineBoundary(c) == c \in {"\n", "\r", "\f"}

RECURSIVE BoundaryRun(_, _)
BoundaryRun(s, i) ==
    IF i <= Len(s) /\ ~IsLineBoundary(s[i]) THEN 1 + BoundaryRun(s, i + 1) ELSE 0

\* content.splitlines(): no line ends, and no empty last line after a final
\* boundary
RECURSIVE splitlines(_)
splitlines(content) ==
    LET k == BoundaryRun(content, 1)
        skip == IF StartsWith(content, k + 1, CRLF) THEN 2 ELSE 1
    IN IF content = <<>> THEN <<>>
       ELSE IF k = Len(content) THEN <<content>>
       ELSE <<SubSeq(content, 1, k)>>
              \o splitlines(SubSeq(content, k + skip + 1, Len(content)))

\* "".join(lines)
RECURSIVE Concat(_)
Concat(lines) == IF lines = <<>> THEN <<>> ELSE Head(lines) \o Concat(Tail(lines))

\* _add_line_numbers: the numbered lines, each f"{line_num:>{width}}| {line}"
add_line_numbers(content, start_line) ==
    LET lines == splitlines(content)
        width == Digits(start_line + Len(lines) - 1)
    IN [i \in 1..Len(lines) |->
          [line_num |-> start_line + i - 1, width |-> width, line |-> lines[i]]]

\* An optional integer argument: None, or a value
None == [given |-> FALSE, v |-> 0]

Some(v) == [given |-> TRUE, v |-> v]

ReadError(type) ==
    [error |-> type, start_line |-> 0, lines_shown |-> 0, total_lines |-> 0,
     selected_lines |-> <<>>, is_truncated |-> FALSE, next_offset |-> 0,
     numbered |-> <<>>]

\* Mutant: the offset is taken as a 1-based line number.
read_file_OneBasedOffset(target, offset, limit) ==
    LET all_lines == readlines(target.bytes)
        total_lines == Len(all_lines)
        start_line == IF offset.given /\ offset.v >= 0 THEN offset.v + 1 ELSE 0
        end_line == start_line
                      + (IF limit.given /\ limit.v > 0 THEN limit.v ELSE DEFAULT_LINE_LIMIT)
        selected_lines == SubSeq(all_lines, start_line + 1, Min(end_line, total_lines))
    IN [error |-> "", start_line |-> start_line, lines_shown |-> Len(selected_lines),
        total_lines |-> total_lines, selected_lines |-> selected_lines,
        is_truncated |-> end_line < total_lines,
        next_offset |-> start_line + Len(selected_lines),
        numbered |-> add_line_numbers(Concat(selected_lines), start_line + 1)]

\* read_file(file_path, offset, limit) on a text file or a path that is no
\* file: the error type, or the lines read (all_lines[start_line:end_line]),
\* the truncation flag, the next_offset of the notice and the numbered lines.
read_file(target, offset, limit) ==
    LET all_lines == readlines(target.bytes)
        total_lines == Len(all_lines)
        start_line == IF offset.given /\ offset.v >= 0 THEN offset.v ELSE 0
        end_line == start_line
                      + (IF limit.given /\ limit.v > 0 THEN limit.v ELSE DEFAULT_LINE_LIMIT)
        selected_lines == SubSeq(all_lines, start_line + 1, Min(end_line, total_lines))
        lines_shown == Len(selected_lines)
    IN IF target.kind = "absent" THEN ReadError("FILE_NOT_FOUND")
       ELSE IF target.kind = "directory" THEN ReadError("PATH_IS_DIRECTORY")
       ELSE [error |-> "", start_line |-> start_line, lines_shown |-> lines_shown,
             total_lines |-> total_lines, selected_lines |-> selected_lines,
             is_truncated |-> end_line < total_lines,
             next_offset |-> start_line + lines_shown,
             numbered |-> add_line_numbers(Concat(selected_lines), start_line + 1)]

\* --------------------------------------------------- read_file: the inputs
ReadChars == {"a", "\n", "\r", "\f"}

ReadTargets ==
    {Absent, Directory} \cup {RegularFile(b) : b \in SeqsUpTo(ReadChars, MaxReadLen)}

Offsets == {None} \cup {Some(v) : v \in -1..MaxOffset}

Limits == {None} \cup {Some(v) : v \in -1..MaxLimit}

NotRead == ReadError("")

\* ----------------------------------------------- read_file: state machine
ReadInit ==
    /\ rdfile \in ReadTargets
    /\ rdstage = "start"
    /\ rdargs = [offset |-> None, limit |-> None]
    /\ rdfirst = NotRead
    /\ rdsecond = NotRead

\* A read_file call with any offset and limit.
ReadFirst ==
    /\ ReadFrame
    /\ rdstage = "start"
    /\ \E offset \in Offsets, limit \in Limits :
         /\ rdargs' = [offset |-> offset, limit |-> limit]
         /\ rdfirst' = read_file(rdfile, offset, limit)
    /\ rdstage' = "first"
    /\ UNCHANGED <<rdfile, rdsecond>>

\* The follow-up call: the offset is the next_offset of the first call (its
\* offset plus lines_shown), the limit is the same.
ReadFollowUp ==
    /\ ReadFrame
    /\ rdstage = "first"
    /\ rdfirst.error = ""
    /\ rdsecond' = read_file(rdfile, Some(rdfirst.start_line + rdfirst.lines_shown),
                             rdargs.limit)
    /\ rdstage' = "second"
    /\ UNCHANGED <<rdfile, rdargs, rdfirst>>

ReadNext ==
    \/ ReadFirst
    \/ ReadFollowUp

\* The read_file subsystem at rest.
ReadIdle ==
    /\ rdfile = Absent
    /\ rdstage = "start"
    /\ rdargs = [offset |-> None, limit |-> None]
    /\ rdfirst = NotRead
    /\ rdsecond = NotRead

\* ============================================================================
\* The list_directory tool (tool_impl/list_directory.py)
\* ============================================================================
DEFAULT_MAX_ENTRIES == 100

ABSOLUTE_MAX_ENTRIES == 500

\* s[a:b] as Python evaluates it: a negative index counts from the end, and
\* both indices are clamped to the list
SliceIndex(n, x) == IF x < 0 THEN Max(x + n, 0) ELSE Min(x, n)

PySlice(s, a, b) ==
    LET lo == SliceIndex(Len(s), a)
        hi == SliceIndex(Len(s), b)
    IN IF lo >= hi THEN <<>> ELSE SubSeq(s, lo + 1, hi)

\* A directory entry: its name (names are numbers, ordered as str.lower orders
\* them), whether it is a directory, and whether the ignore patterns match it.
DirEntry(name) ==
    [name |-> name, is_dir |-> name % 3 = 0, matches |-> name % 4 = 1]

\* A directory of n entries, in the order os.listdir gives them.
DirOf(n) == [kind |-> "directory", entries |-> [i \in 1..n |-> DirEntry(n - i + 1)]]

NoDir == [kind |-> "absent", entries |-> <<>>]

NotADir == [kind |-> "file", entries |-> <<>>]

ListError(type) ==
    [type |-> type, entries |-> <<>>, directories |-> 0, files |-> 0,
     total_count |-> 0, returned_count |-> 0, offset |-> 0, limit |-> 0,
     truncated |-> FALSE, remaining |-> 0, next_offset |-> 0, ignored |-> 0]

ByName(a, b) == a.name < b.name

\* list_directory(dir_path, ignore, file_filtering_options, limit, offset);
\* ignore: whether ignore patterns (argument or ignore files) are in force;
\* denied: os.listdir raises PermissionError.
list_directory(dir, ignore, limit, offset, denied) ==
    LET effective_limit ==
            Min(IF limit.given THEN limit.v ELSE DEFAULT_MAX_ENTRIES, ABSOLUTE_MAX_ENTRIES)
        IsIgnored(e) == ignore /\ e.matches
        IsKeptDir(e) == ~IsIgnored(e) /\ e.is_dir
        IsKeptFile(e) == ~IsIgnored(e) /\ ~e.is_dir
        ignored_count == Len(SelectSeq(dir.entries, IsIgnored))
        directories == SortSeq(SelectSeq(dir.entries, IsKeptDir), ByName)
        files == SortSeq(SelectSeq(dir.entries, IsKeptFile), ByName)
        all_formatted_entries == directories \o files
        total_count == Len(all_formatted_entries)
        start_idx == Min(offset, total_count)
        end_idx == Min(start_idx + effective_limit, total_count)
        formatted_entries == PySlice(all_formatted_entries, start_idx, end_idx)
        is_truncated == end_idx < total_count
    IN IF dir.kind = "absent" THEN ListError("DIRECTORY_NOT_FOUND")
       ELSE IF dir.kind # "directory" THEN ListError("NOT_A_DIRECTORY")
       ELSE IF denied THEN ListError("PERMISSION_DENIED")
       ELSE IF dir.entries = <<>> THEN [ListError("") EXCEPT !.type = "empty"]
       ELSE [type |-> "listing", entries |-> formatted_entries,
             directories |-> Len(directories), files |-> Len(files),
             total_count |-> total_count,
             returned_count |-> Len(formatted_entries),
             offset |-> start_idx, limit |-> effective_limit,
             truncated |-> is_truncated,
             remaining |-> IF is_truncated THEN total_count - end_idx ELSE 0,
             next_offset |-> IF is_truncated THEN end_idx ELSE 0,
             ignored |-> ignored_count]

\* ----------------------------------------------- list_directory: the inputs
DirSizes == {0, 1, 3, 101, 501, 600}

ListTargets == {NoDir, NotADir} \cup {DirOf(n) : n \in DirSizes}

ListLimits == {None} \cup {Some(v) : v \in {-1, 0, 1, 2, 100, 499, 500, 501, 1000}}

ListOffsets == {-600, -2, -1, 0, 1, 2, 99, 500, 1000}

NotListed == ListError("")

NoListArgs == [ignore |-> FALSE, limit |-> None, offset |-> 0]

\* ------------------------------------------- list_directory: state machine
ListInit ==
    /\ lsdir \in ListTargets
    /\ lsargs = NoListArgs
    /\ lsresult = NotListed

\* A call of list_directory on the path.  The tool changes nothing on disk, so
\* the first call from each directory shows every result there is.
ListCall ==
    /\ ListFrame
    /\ lsresult = NotListed
    /\ \E ignore \in BOOLEAN, limit \in ListLimits, offset \in ListOffsets,
          denied \in BOOLEAN :
         /\ lsargs' = [ignore |-> ignore, limit |-> limit, offset |-> offset]
         /\ lsresult' = list_directory(lsdir, ignore, limit, offset, denied)
    /\ UNCHANGED lsdir

ListNext == ListCall

\* The list_directory subsystem at rest.
ListIdle ==
    /\ lsdir = NoDir
    /\ lsargs = NoListArgs
    /\ lsresult = NotListed

\* ============================================================================
\* The search_file_content tool (tool_impl/search_file_content.py)
\* ============================================================================
\* Paths and output lines are sequences of characters.
DEFAULT_TOTAL_MAX_MATCHES == 500

DEFAULT_EXCLUDES ==
    { <<"n", "o", "d", "e", "_", "m", "o", "d", "u", "l", "e", "s">>,
      <<".", "g", "i", "t">>,
      <<"_", "_", "p", "y", "c", "a", "c", "h", "e", "_", "_">>,
      <<"v", "e", "n", "v">>,
      <<".", "v", "e", "n", "v">>,
      <<"d", "i", "s", "t">>,
      <<"b", "u", "i", "l", "d">>,
      <<".", "t", "o", "x">>,
      <<".", "e", "g", "g", "s">> }

DOTDOT == <<".", ".">>

\* The length of the longest prefix of s[i:] free of the character c
RECURSIVE FieldRun(_, _, _)
FieldRun(s, i, c) ==
    IF i <= Len(s) /\ s[i] # c THEN 1 + FieldRun(s, i + 1, c) ELSE 0

\* s.split(c)
RECURSIVE Split(_, _)
Split(s, c) ==
    LET k == FieldRun(s, 1, c) IN
    IF k = Len(s) THEN <<s>>
    ELSE <<SubSeq(s, 1, k)>> \o Split(SubSeq(s, k + 2, Len(s)), c)

\* c.join(parts)
RECURSIVE Join(_, _)
Join(parts, c) ==
    IF parts = <<>> THEN <<>>
    ELSE IF Len(parts) = 1 THEN parts[1]
    ELSE parts[1] \o <<c>> \o Join(Tail(parts), c)

\* os.path.isabs
isabs(path) == path # <<>> /\ path[1] = "/"

\* os.path.join(a, b)
path_join(a, b) ==
    IF isabs(b) THEN b
    ELSE IF a = <<>> \/ a[Len(a)] = "/" THEN a \o b
    ELSE a \o <<"/">> \o b

\* The loop of os.path.normpath over the components of the path
RECURSIVE NormComps(_, _, _)
NormComps(comps, new_comps, initial_slashes) ==
    IF comps = <<>> THEN new_comps
    ELSE LET comp == Head(comps) IN
         IF comp \in {<<>>, <<".">>}
         THEN NormComps(Tail(comps), new_comps, initial_slashes)
         ELSE IF \/ comp # DOTDOT
                 \/ (initial_slashes = 0 /\ new_comps = <<>>)
                 \/ (new_comps # <<>> /\ Last(new_comps) = DOTDOT)
         THEN NormComps(Tail(comps), Append(new_comps, comp), initial_slashes)
         ELSE IF new_comps # <<>>
         THEN NormComps(Tail(comps), SubSeq(new_comps, 1, Len(new_comps) - 1),
                        initial_slashes)
         ELSE NormComps(Tail(comps), new_comps, initial_slashes)

\* os.path.normpath
normpath(path) ==
    IF path = <<>> THEN <<".">>
    ELSE LET initial_slashes ==
                 IF ~isabs(path) THEN 0
                 ELSE IF /\ StartsWith(path, 1, <<"/", "/">>)
                         /\ ~StartsWith(path, 1, <<"/", "/", "/">>)
                      THEN 2
                 ELSE 1
             joined == Join(NormComps(Split(path, "/"), <<>>, initial_slashes), "/")
             result == [k \in 1..initial_slashes |-> "/"] \o joined
         IN IF result = <<>> THEN <<".">> ELSE result

\* The working directory of the process
Cwd == <<"/", "w">>

\* os.path.abspath
abspath(path) == normpath(IF isabs(path) THEN path ELSE path_join(Cwd, path))

NonEmpty(parts) == SelectSeq(parts, LAMBDA x : x # <<>>)

\* len(os.path.commonprefix([a, b])) of two lists of components
RECURSIVE CommonLen(_, _)
CommonLen(a, b) ==
    IF a # <<>> /\ b # <<>> /\ Head(a) = Head(b)
    THEN 1 + CommonLen(Tail(a), Tail(b))
    ELSE 0

\* os.path.relpath(path, start)
relpath(path, start) ==
    LET start_list == NonEmpty(Split(abspath(start), "/"))
        path_list == NonEmpty(Split(abspath(path), "/"))
        i == CommonLen(start_list, path_list)
        rel_list == [k \in 1..(Len(start_list) - i) |-> DOTDOT]
                      \o SubSeq(path_list, i + 1, Len(path_list))
    IN IF rel_list = <<>> THEN <<".">> ELSE Join(rel_list, "/")

\* os.path.basename
basename(path) == Last(Split(path, "/"))

IsDigit(c) == c \in {"0", "1", "2", "3", "4", "5", "6", "7", "8", "9"}

DigitValue(c) ==
    CASE c = "0" -> 0 [] c = "1" -> 1 [] c = "2" -> 2 [] c = "3" -> 3
      [] c = "4" -> 4 [] c = "5" -> 5 [] c = "6" -> 6 [] c = "7" -> 7
      [] c = "8" -> 8 [] c = "9" -> 9

\* int(s) of a run of digits
RECURSIVE ParseInt(_)
ParseInt(s) ==
    IF s = <<>> THEN 0
    ELSE 10 * ParseInt(SubSeq(s, 1, Len(s) - 1)) + DigitValue(Last(s))

\* The length of the run of digits at s[i:]
RECURSIVE DigitRun(_, _)
DigitRun(s, i) ==
    IF i <= Len(s) /\ IsDigit(s[i]) THEN 1 + DigitRun(s, i + 1) ELSE 0

\* The positions p where r"^(.+?):(\d+):(.*)$" can end its first group: a colon
\* after at least one character, then a run of digits closed by a colon.
GrepSeparators(line) ==
    {p \in 2..Len(line) :
        /\ line[p] = ":"
        /\ DigitRun(line, p + 1) >= 1
        /\ p + 1 + DigitRun(line, p + 1) <= Len(line)
        /\ line[p + 1 + DigitRun(line, p + 1)] = ":"}

NoMatch == [parsed |-> FALSE, filePath |-> <<>>, lineNumber |-> 0]

\* One match; the text of the matched line takes no part in what is checked
\* here and is left out.
Match(filePath, lineNumber) ==
    [parsed |-> TRUE, filePath |-> filePath, lineNumber |-> lineNumber]

\* _parse_grep_line with the security check removed
parse_grep_line_NoSecurityCheck(line, base_path) ==
    IF \A i \in 1..Len(line) : IsSpace(line[i]) THEN NoMatch
    ELSE IF GrepSeparators(line) = {} THEN NoMatch
    ELSE LET p == CHOOSE q \in GrepSeparators(line) :
                      \A r \in GrepSeparators(line) : q <= r
             file_path_raw == SubSeq(line, 1, p - 1)
             line_number == ParseInt(SubSeq(line, p + 1, p + DigitRun(line, p + 1)))
             absolute_path == abspath(path_join(base_path, file_path_raw))
             relative_path == relpath(absolute_path, base_path)
         IN Match(relative_path, line_number)

\* _parse_grep_line
parse_grep_line(line, base_path) ==
    IF \A i \in 1..Len(line) : IsSpace(line[i]) THEN NoMatch
    ELSE IF GrepSeparators(line) = {} THEN NoMatch
    ELSE LET p == CHOOSE q \in GrepSeparators(line) :
                      \A r \in GrepSeparators(line) : q <= r
             file_path_raw == SubSeq(line, 1, p - 1)
             line_number == ParseInt(SubSeq(line, p + 1, p + DigitRun(line, p + 1)))
             absolute_path == abspath(path_join(base_path, file_path_raw))
             relative_path == relpath(absolute_path, base_path)
         IN IF StartsWith(relative_path, 1, DOTDOT) \/ isabs(relative_path)
            THEN NoMatch
            ELSE Match(IF relative_path # <<>> THEN relative_path
                       ELSE basename(absolute_path),
                       line_number)

\* The loop of _git_grep and _system_grep over the lines of stdout: the lines
\* that parse, in order, up to the one that makes max_matches of them
CollectMatches(lines, search_path, max_matches) ==
    LET parsed_lines == SelectSeq([k \in 1..Len(lines) |->
                                     parse_grep_line(lines[k], search_path)],
                                  LAMBDA match : match.parsed)
    IN IF parsed_lines = <<>> THEN <<>>
       ELSE SubSeq(parsed_lines, 1, Min(Len(parsed_lines), Max(max_matches, 1)))

NoMatches == [ran |-> FALSE, matches |-> <<>>]

Matches(matches) == [ran |-> TRUE, matches |-> matches]

\* _git_grep: None when git is missing, the directory is in no repository, or
\* git grep exits with a code other than 0 and 1
git_grep(env, max_matches) ==
    IF env.git # "ran" THEN NoMatches
    ELSE Matches(CollectMatches(env.stdout, env.search_path, max_matches))

\* _system_grep: None when grep is missing or exits with a code other than 0
\* and 1
system_grep(env, max_matches) ==
    IF env.grep # "ran" THEN NoMatches
    ELSE Matches(CollectMatches(env.stdout, env.search_path, max_matches))

\* should_exclude: some part of the path matches an exclude (the excludes hold
\* no wildcard)
should_exclude(path) ==
    IF path = <<".">> THEN FALSE
    ELSE \E part \in Range(NonEmpty(Split(path, "/"))) : part \in DEFAULT_EXCLUDES

\* matches_include, for an include pattern without wildcards
matches_include(filename, include) ==
    include = <<>> \/ filename = include

\* The loop over the lines of one file in _python_grep: the matching lines, in
\* order, as long as there are fewer than max_matches matches
ScanLines(lines, rel_path, max_matches, matches) ==
    LET hits == SelectSeq([k \in 1..Len(lines) |-> k], LAMBDA k : lines[k])
        taken == Min(Len(hits), Max(max_matches - Len(matches), 0))
    IN matches \o [k \in 1..taken |-> Match(rel_path, hits[k])]

\* The loop of _python_grep over the files os.walk yields, in its order
RECURSIVE WalkFiles(_, _, _, _, _)
WalkFiles(files, search_path, include, max_matches, matches) ==
    IF files = <<>> \/ Len(matches) >= max_matches THEN matches
    ELSE LET entry == Head(files)
             root == IF entry.dir = <<>> THEN search_path
                     ELSE path_join(search_path, entry.dir)
             rel_root == relpath(root, search_path)
             file_path == path_join(root, entry.name)
             rel_path == relpath(file_path, search_path)
             skipped == \/ should_exclude(rel_root)
                        \/ ~matches_include(entry.name, include)
                        \/ should_exclude(rel_path)
                        \/ ~entry.readable
         IN WalkFiles(Tail(files), search_path, include, max_matches,
                      IF skipped THEN matches
                      ELSE ScanLines(entry.lines, rel_path, max_matches, matches))

\* _python_grep
python_grep(env, max_matches) ==
    WalkFiles(env.tree, env.search_path, env.include, max_matches, <<>>)

SearchError(type) ==
    [type |-> type, strategy_used |-> "none", matches |-> <<>>,
     match_count |-> 0, was_truncated |-> FALSE]

\* The result of search_file_content once a strategy has given its matches
SearchResult(strategy_used, matches, max_matches) ==
    IF matches = <<>>
    THEN [type |-> "No matches found", strategy_used |-> strategy_used,
          matches |-> <<>>, match_count |-> 0, was_truncated |-> FALSE]
    ELSE [type |-> "Found", strategy_used |-> strategy_used,
          matches |-> matches, match_count |-> Len(matches),
          was_truncated |-> Len(matches) >= max_matches]

\* The strategies of search_file_content in their order: the first that ran
\* gives the matches
FirstStrategy(env, max_matches, git, grep) ==
    IF git.ran THEN SearchResult("git grep", git.matches, max_matches)
    ELSE IF grep.ran THEN SearchResult("system grep", grep.matches, max_matches)
    ELSE SearchResult("python fallback", python_grep(env, max_matches), max_matches)

\* search_file_content
search_file_content(env) ==
    IF ~env.pattern_valid THEN SearchError("INVALID_PATTERN")
    ELSE IF env.dir = "absent" THEN SearchError("FILE_NOT_FOUND")
    ELSE IF env.dir = "file" THEN SearchError("PATH_IS_NOT_A_DIRECTORY")
    ELSE FirstStrategy(env, DEFAULT_TOTAL_MAX_MATCHES,
                       git_grep(env, DEFAULT_TOTAL_MAX_MATCHES),
                       system_grep(env, DEFAULT_TOTAL_MAX_MATCHES))

\* ---- what the model feeds the tool
SearchRoots == { <<"/">>, <<"/", "r">>, <<"/", "r", "/", "s">> }

\* Lines git grep and grep may print: the file names of a tree are arbitrary,
\* and so is what comes before the first ":<digits>:".
GrepLines ==
    { <<"a", ":", "1", ":", "x">>,
      <<".", "/", "a", ":", "1", ":", "x">>,
      <<"s", "/", "a", ":", "2", ":", "x">>,
      <<".", ".", "/", "a", ":", "1", ":", "x">>,
      <<"/", "e", ":", "1", ":", "x">>,
      <<"/", "r", "/", "a", ":", "1", ":", "x">>,
      <<"/", "/", "e", ":", "1", ":", "x">>,
      <<"a", "/", ".", ".", "/", ".", ".", "/", "b", ":", "1", ":", "x">>,
      <<"a", "/", ".", ".", "/", "b", ":", "1", ":", "x">>,
      <<".", ".", "/", "s", "/", "a", ":", "1", ":", "x">>,
      <<".", ".", "a", ":", "1", ":", "x">>,
      <<"a", ":", "1", ":", "b", ":", "2", ":", "x">>,
      <<"a", ":", "x", ":", "1", "2", ":", "y">>,
      <<":", "1", ":", "x">>,
      <<"a">>,
      <<" ">>,
      <<>> }

\* str(n)
RECURSIVE DecimalChars(_)
DecimalChars(n) ==
    LET digit == CASE n % 10 = 0 -> "0" [] n % 10 = 1 -> "1" [] n % 10 = 2 -> "2"
                   [] n % 10 = 3 -> "3" [] n % 10 = 4 -> "4" [] n % 10 = 5 -> "5"
                   [] n % 10 = 6 -> "6" [] n % 10 = 7 -> "7" [] n % 10 = 8 -> "8"
                   [] n % 10 = 9 -> "9"
    IN IF n < 10 THEN <<digit>> ELSE Append(DecimalChars(n \div 10), digit)

\* n lines of output, one per matching line of the file a
LongOutput(n) == [k \in 1..n |-> <<"a", ":">> \o DecimalChars(k) \o <<":", "x">>]

\* Sizes around the cap
CapSizes == { DEFAULT_TOTAL_MAX_MATCHES - 1, DEFAULT_TOTAL_MAX_MATCHES,
              DEFAULT_TOTAL_MAX_MATCHES + 1 }

Stdouts == SeqsUpTo(GrepLines, MaxOutputLines)

\* Outputs around the cap, some with a line in front that is not counted
LongStdouts ==
    {prefix \o LongOutput(n) :
       prefix \in { <<>>, << <<".", ".", "/", "a", ":", "1", ":", "x">> >>,
                    << <<"a">> >> },
       n \in CapSizes}

FileNames == { <<"a">>, <<".", ".", "a">>, <<"d", "i", "s", "t">> }

TreeFiles ==
    [dir : { <<>>, <<"s">> }, name : FileNames,
     lines : { <<>>, <<FALSE, TRUE>> }, readable : {TRUE}]
      \cup {[dir |-> <<>>, name |-> <<"a">>, lines |-> <<TRUE>>, readable |-> FALSE]}

LongFile(n) ==
    [dir |-> <<>>, name |-> <<"a">>, lines |-> [k \in 1..n |-> TRUE],
     readable |-> TRUE]

Trees == SeqsUpTo(TreeFiles, MaxTreeFiles)

\* Trees with a file of about as many matching lines as the cap
LongTrees ==
          {prefix \o <<LongFile(n)>> \o suffix :
              prefix \in { <<>>, << [dir |-> <<>>, name |-> <<".", ".", "a">>,
                                     lines |-> <<TRUE>>, readable |-> TRUE] >> },
              suffix \in { <<>>, << [dir |-> <<"s">>, name |-> <<"a">>,
                                     lines |-> <<TRUE>>, readable |-> TRUE] >> },
              n \in CapSizes}

SearchEnv(pattern_valid, dir, search_path, include, git, grep, stdout, tree) ==
    [pattern_valid |-> pattern_valid, dir |-> dir, search_path |-> search_path,
     include |-> include, git |-> git, grep |-> grep, stdout |-> stdout,
     tree |-> tree]

NoSearch == SearchEnv(TRUE, "absent", <<"/">>, <<>>, "ran", "ran", <<>>, <<>>)

NotSearched ==
    [type |-> "not called", strategy_used |-> "none", matches |-> <<>>,
     match_count |-> 0, was_truncated |-> FALSE]

\* The environments: an invalid pattern or a bad dir_path; git grep runs or is
\* not to be had and grep runs; neither is to be had and the files are walked;
\* outputs and trees around the cap.
SearchInit ==
    /\ srresult = NotSearched
    /\ \/ srenv = SearchEnv(FALSE, "directory", <<"/", "r">>, <<>>, "ran", "ran", <<>>, <<>>)
       \/ \E dir \in {"absent", "file"} :
             srenv = SearchEnv(TRUE, dir, <<"/", "r">>, <<>>, "ran", "ran", <<>>, <<>>)
       \/ \E search_path \in SearchRoots, stdout \in Stdouts,
             git \in {"ran", "unavailable", "no repository", "failed"} :
             srenv = SearchEnv(TRUE, "directory", search_path, <<>>, git, "ran",
                               stdout, <<>>)
       \/ \E search_path \in SearchRoots, include \in { <<>>, <<"a">> },
             grep \in {"unavailable", "failed"}, tree \in Trees :
             srenv = SearchEnv(TRUE, "directory", search_path, include,
                               "unavailable", grep, <<>>, tree)
       \/ \E stdout \in LongStdouts, git \in {"ran", "unavailable"} :
             srenv = SearchEnv(TRUE, "directory", <<"/", "r">>, <<>>, git, "ran",
                               stdout, <<>>)
       \/ \E tree \in LongTrees :
             srenv = SearchEnv(TRUE, "directory", <<"/", "r">>, <<>>, "unavailable",
                               "unavailable", <<>>, tree)

\* One call of search_file_content.  The tool changes nothing on disk, so one
\* call tells all there is to tell about an environment.
SearchCall ==
    /\ SearchFrame
    /\ srresult = NotSearched
    /\ srresult' = search_file_content(srenv)
    /\ UNCHANGED srenv

SearchNext == SearchCall

SearchIdle ==
    /\ srenv = NoSearch
    /\ srresult = NotSearched

\* ============================================================================
\* The write_todos tool (code_agent_gemini_cli/tool_impl/write_todos.py)
\* ============================================================================
VALID_STATUSES == {"pending", "in_progress", "completed", "cancelled"}

\* An entry of the todos list: a dict with its description and status ("" for
\* a key that is missing, as todo.get(key, "") gives), or something else.
Todo(description, status) ==
    [is_dict |-> TRUE, description |-> description, status |-> status]

NotADict == [is_dict |-> FALSE, description |-> <<>>, status |-> ""]

\* The error the loop returns at an entry, "" when the entry passes
TodoEntryError(todo) ==
    IF ~todo.is_dict THEN "INVALID_TODO"
    ELSE IF todo.description = <<>> \/ Strip(todo.description) = <<>>
         THEN "MISSING_DESCRIPTION"
    ELSE IF todo.status \notin VALID_STATUSES THEN "INVALID_STATUS"
    ELSE ""

TodoFailure(type, at) ==
    [success |-> FALSE, type |-> type, at |-> at, todos |-> <<>>, count |-> 0,
     summary |-> [s \in VALID_STATUSES |-> 0]]

TodoSuccess(validated_todos) ==
    [success |-> TRUE, type |-> "", at |-> 0, todos |-> validated_todos,
     count |-> Len(validated_todos),
     summary |-> [s \in VALID_STATUSES |->
                    Cardinality({i \in 1..Len(validated_todos) :
                                   validated_todos[i].status = s})]]

\* write_todos without the check of lines 84-90
write_todos_AnyNumberInProgress(todos) ==
    LET bad == {i \in 1..Len(todos) : TodoEntryError(todos[i]) # ""} IN
    IF bad # {}
    THEN LET first == CHOOSE i \in bad : \A j \in bad : i <= j
         IN TodoFailure(TodoEntryError(todos[first]), first)
    ELSE TodoSuccess([i \in 1..Len(todos) |->
                        [index |-> i, description |-> Strip(todos[i].description),
                         status |-> todos[i].status]])

\* write_todos
write_todos(todos) ==
    LET bad == {i \in 1..Len(todos) : TodoEntryError(todos[i]) # ""}
        in_progress_count ==
            Cardinality({i \in 1..Len(todos) : todos[i].status = "in_progress"})
    IN IF bad # {}
       THEN LET first == CHOOSE i \in bad : \A j \in bad : i <= j
            IN TodoFailure(TodoEntryError(todos[first]), first)
       ELSE IF in_progress_count > 1 THEN TodoFailure("MULTIPLE_IN_PROGRESS", 0)
       ELSE TodoSuccess([i \in 1..Len(todos) |->
                           [index |-> i, description |-> Strip(todos[i].description),
                            status |-> todos[i].status]])

\* ---- what the model feeds the tool
TodoDescriptions == { <<>>, <<" ">>, <<" ", "a">> }

TodoStatuses == VALID_STATUSES \cup {"done"}

TodoEntries ==
    {Todo(d, s) : d \in TodoDescriptions, s \in TodoStatuses} \cup {NotADict}

TodoLists == SeqsUpTo(TodoEntries, MaxTodos)

TodoNotCalled == TodoFailure("not called", 0)

TodoInit ==
    /\ tdtodos \in TodoLists
    /\ tdresult = TodoNotCalled

\* One call of write_todos.  The tool keeps nothing between calls.
WriteTodos ==
    /\ TodoFrame
    /\ tdresult = TodoNotCalled
    /\ tdresult' = write_todos(tdtodos)
    /\ UNCHANGED tdtodos

TodoNext == WriteTodos

TodoIdle ==
    /\ tdtodos = <<>>
    /\ tdresult = TodoNotCalled

\* ============================================================================
\* The folder-structure scanner (cli.py, read_full_structure)
\* ============================================================================
\* A path is the sequence of names from root_path down; <<>> is root_path.
\* The tree under root_path says what each path is: nothing, a file, a
\* directory, or a directory os.listdir may not read.
DEFAULT_IGNORED_FOLDERS == {"node_modules", ".git", "dist", "__pycache__"}

\* The names entries may bear, in the order sorted() gives them
SortedNames == <<"a", "b", "dist">>

TopNames == Range(SortedNames)

SubNames == {"a", "b"}

TreePaths ==
    {<<n>> : n \in TopNames} \cup {<<n, m>> : n \in TopNames, m \in SubNames}

isfile(tree, path) == path \in DOMAIN tree /\ tree[path] = "file"

isdir(tree, path) ==
    path = <<>> \/ (path \in DOMAIN tree /\ tree[path] \in {"dir", "locked"})

\* sorted(os.listdir(current_path))
listdir(tree, current_path) ==
    SelectSeq(SortedNames,
              LAMBDA n : /\ Append(current_path, n) \in DOMAIN tree
                         /\ tree[Append(current_path, n)] # "none")

\* FullFolderInfo, without name and path: the path is the key of the node
FullFolderInfo(is_ignored) ==
    [files |-> <<>>, sub_folders |-> <<>>, total_children |-> 0,
     total_files |-> 0, is_ignored |-> is_ignored, has_more_files |-> FALSE,
     has_more_subfolders |-> FALSE]

\* The loop of lines 79-88 with its check removed: every file is taken
FilesTaken_Unchecked(files, current_item_count, max_items) == files

\* The loop of lines 79-88: the files of the folder, as long as the count is
\* below max_items
FilesTaken(files, current_item_count, max_items) ==
    SubSeq(files, 1, Min(Len(files), Max(max_items - current_item_count, 0)))

\* The loop of lines 93-123: the subfolders of the folder, as long as the
\* count is below max_items
SubFoldersTaken(folders, current_item_count, max_items) ==
    SubSeq(folders, 1, Min(Len(folders), Max(max_items - current_item_count, 0)))

\* ---- what the model feeds the scanner
\* Only a directory has anything below it.
Trees18 ==
    {t \in [TreePaths -> {"none", "file", "dir", "locked"}] :
        /\ \A p \in TreePaths :
              Len(p) = 2 => /\ t[p] # "locked"
                            /\ t[p] # "none" => t[<<p[1]>>] = "dir"
        /\ t[<<"dist">>] # "locked"
        /\ t[<<"dist", "b">>] = "none"
        /\ t[<<"dist", "a">>] # "dir"}

IgnoreSets == {DEFAULT_IGNORED_FOLDERS, {}}

NoTree == [p \in TreePaths |-> "none"]

TreeInit ==
    /\ fstree \in Trees18
    /\ fsargs \in [max_items : 0..MaxItems, ignored_folders : IgnoreSets,
                   root_readable : BOOLEAN]
    /\ fsphase = "start"
    /\ fsqueue = <<>>
    /\ fsprocessed = {}
    /\ fscount = 0
    /\ fsnodes = <<>>

\* Lines 48-53: the root node, the queue holding it, the count at 0
ScanStart ==
    /\ TreeFrame
    /\ fsphase = "start"
    /\ fsphase' = "loop"
    /\ fsqueue' = << <<>> >>
    /\ fsprocessed' = {}
    /\ fscount' = 0
    /\ fsnodes' = [p \in { <<>> } |-> FullFolderInfo(FALSE)]
    /\ UNCHANGED <<fstree, fsargs>>

Unreadable(path) ==
    IF path = <<>> THEN ~fsargs.root_readable ELSE fstree[path] = "locked"

\* An iteration that pops a folder and goes on to the next: the path was
\* processed before, the count has reached max_items, or the folder below the
\* root cannot be read
SkipFolder ==
    /\ TreeFrame
    /\ fsphase = "loop"
    /\ fsqueue # <<>>
    /\ LET current_path == Head(fsqueue) IN
          /\ \/ current_path \in fsprocessed
             \/ fscount >= fsargs.max_items
             \/ (Unreadable(current_path) /\ current_path # <<>>)
          /\ fsprocessed' = fsprocessed \cup {current_path}
    /\ fsqueue' = Tail(fsqueue)
    /\ UNCHANGED <<fstree, fsargs, fsphase, fscount, fsnodes>>

\* Lines 70-72: os.listdir fails on root_path and the call returns None
RootUnreadable ==
    /\ TreeFrame
    /\ fsphase = "loop"
    /\ fsqueue # <<>>
    /\ Head(fsqueue) = <<>>
    /\ <<>> \notin fsprocessed
    /\ fscount < fsargs.max_items
    /\ Unreadable(<<>>)
    /\ fsphase' = "returned None"
    /\ fsprocessed' = fsprocessed \cup { <<>> }
    /\ fsqueue' = Tail(fsqueue)
    /\ fsnodes' = <<>>
    /\ UNCHANGED <<fstree, fsargs, fscount>>

\* An iteration that reads a folder: its files first, then its subfolders,
\* each counted; the subfolders that are not ignored join the queue
ProcessFolder ==
    /\ TreeFrame
    /\ fsphase = "loop"
    /\ fsqueue # <<>>
    /\ LET current_path == Head(fsqueue)
           entries == listdir(fstree, current_path)
           files == SelectSeq(entries,
                              LAMBDA n : isfile(fstree, Append(current_path, n)))
           folders == SelectSeq(entries,
                                LAMBDA n : isdir(fstree, Append(current_path, n)))
           files_in_current_dir == FilesTaken(files, fscount, fsargs.max_items)
           count_after_files == fscount + Len(files_in_current_dir)
           taken == SubFoldersTaken(folders, count_after_files, fsargs.max_items)
           sub_folders_in_current_dir ==
               [k \in 1..Len(taken) |->
                  [name |-> taken[k],
                   is_ignored |-> taken[k] \in fsargs.ignored_folders]]
           queued == SelectSeq(taken, LAMBDA n : n \notin fsargs.ignored_folders)
           folder_info ==
               [files |-> files_in_current_dir,
                sub_folders |-> sub_folders_in_current_dir,
                total_children |-> Len(files_in_current_dir) + Len(taken),
                total_files |-> Len(files_in_current_dir),
                is_ignored |-> FALSE,
                has_more_files |-> Len(files_in_current_dir) < Len(files),
                has_more_subfolders |-> Len(taken) < Len(folders)]
       IN /\ current_path \notin fsprocessed
          /\ fscount < fsargs.max_items
          /\ ~Unreadable(current_path)
          /\ fsprocessed' = fsprocessed \cup {current_path}
          /\ fscount' = count_after_files + Len(taken)
          /\ fsqueue' = Tail(fsqueue)
                          \o [k \in 1..Len(queued) |-> Append(current_path, queued[k])]
          /\ fsnodes' =
                [p \in DOMAIN fsnodes
                        \cup {Append(current_path, taken[k]) : k \in 1..Len(taken)} |->
                   IF p = current_path THEN folder_info
                   ELSE IF p \in DOMAIN fsnodes THEN fsnodes[p]
                   ELSE FullFolderInfo(Last(p) \in fsargs.ignored_folders)]
    /\ UNCHANGED <<fstree, fsargs, fsphase>>

\* Line 127: the queue is empty and the root node is returned
ScanReturn ==
    /\ TreeFrame
    /\ fsphase = "loop"
    /\ fsqueue = <<>>
    /\ fsphase' = "returned"
    /\ UNCHANGED <<fstree, fsargs, fsqueue, fsprocessed, fscount, fsnodes>>

TreeNext == ScanStart \/ SkipFolder \/ RootUnreadable \/ ProcessFolder \/ ScanReturn

TreeIdle ==
    /\ fstree = NoTree
    /\ fsargs = [max_items |-> 0, ignored_folders |-> {}, root_readable |-> TRUE]
    /\ fsphase = "start"
    /\ fsqueue = <<>>
    /\ fsprocessed = {}
    /\ fscount = 0
    /\ fsnodes = <<>>

\* ============================================================================
\* The run_shell_command tool (tool_impl/run_shell_command.py), run in the
\* foreground on a POSIX system
\* ============================================================================
\* The command runs as "bash -c command" in a session of its own: process 1 is
\* that shell, the leader of the process group; the others are what it forks.
DEFAULT_TIMEOUT_MS == 300000

Procs == 1..MaxProcs

Leader == 1

NoProc == [state |-> "absent", on_term |-> "default"]

Running(procs) == {p \in Procs : procs[p].state = "running"}

\* os.killpg(os.getpgid(pid), sig).  The leader stays a process, running or
\* zombie, until the parent waits for it, so the group is found; SIGKILL ends
\* every running member, SIGTERM those that neither ignore nor handle it.
killpg(procs, sig) ==
    [p \in Procs |->
        IF procs[p].state = "running" /\ (sig = "SIGKILL" \/ procs[p].on_term = "default")
        THEN [procs[p] EXCEPT !.state = "dead"]
        ELSE procs[p]]

\* The handler of TimeoutExpired with SIGKILL left out: SIGTERM again
signal_after_TermOnly(signalled) == "SIGTERM"

\* Lines 230-233: SIGTERM, and after the sleep SIGKILL
signal_after(signalled) == IF signalled = <<>> THEN "SIGTERM" ELSE "SIGKILL"

NoShellResult ==
    [returned |-> FALSE, type |-> "", llm |-> "", display |-> "",
     exit_code_known |-> FALSE]

\* Lines 250-319: the result, from aborted, timeout_triggered and whether
\* there was output
shell_result(aborted, timeout_triggered, has_output, exited) ==
    [returned |-> TRUE, type |-> "",
     llm |-> IF aborted
             THEN IF timeout_triggered THEN "timeout notice" ELSE "cancelled by user"
             ELSE "Output",
     display |-> IF has_output THEN "output"
                 ELSE IF aborted
                      THEN IF timeout_triggered THEN "Command timed out"
                           ELSE "Command cancelled by user."
                 ELSE "(empty)",
     exit_code_known |-> exited]

NoFlags == [aborted |-> FALSE, timeout_triggered |-> FALSE]

ShellInit ==
    /\ shargs \in [command_ok : BOOLEAN, timeout_ms : {0, DEFAULT_TIMEOUT_MS},
                   has_output : BOOLEAN]
    /\ shphase = "start"
    /\ shprocs = [p \in Procs |-> NoProc]
    /\ shsignals = <<>>
    /\ shflags = NoFlags
    /\ shresult = NoShellResult

\* Lines 68-77: an empty command is refused
ShellReject ==
    /\ ShellFrame
    /\ shphase = "start"
    /\ ~shargs.command_ok
    /\ shphase' = "returned"
    /\ shresult' = [NoShellResult EXCEPT !.returned = TRUE, !.type = "INVALID_COMMAND"]
    /\ UNCHANGED <<shargs, shprocs, shsignals, shflags>>

\* Lines 185-218: Popen with start_new_session, the reader thread started
Spawn ==
    /\ ShellFrame
    /\ shphase = "start"
    /\ shargs.command_ok
    /\ shphase' = "waiting"
    /\ \E on_term \in {"default", "ignore"} :
          shprocs' = [shprocs EXCEPT ![Leader] =
                         [state |-> "running", on_term |-> on_term]]
    /\ UNCHANGED <<shargs, shsignals, shflags, shresult>>

\* A running member of the group forks another member
MemberForks ==
    /\ ShellFrame
    /\ shphase # "start"
    /\ \E p \in Running(shprocs), q \in Procs, on_term \in {"default", "ignore"} :
          /\ shprocs[q].state = "absent"
          /\ shprocs' = [shprocs EXCEPT ![q] =
                            [state |-> "running", on_term |-> on_term]]
    /\ UNCHANGED <<shargs, shphase, shsignals, shflags, shresult>>

\* A running member of the group exits of its own accord
MemberExits ==
    /\ ShellFrame
    /\ shphase # "start"
    /\ \E p \in Running(shprocs) :
          shprocs' = [shprocs EXCEPT ![p].state = "dead"]
    /\ UNCHANGED <<shargs, shphase, shsignals, shflags, shresult>>

\* Line 221: process.wait returns, the shell has exited
WaitReturns ==
    /\ ShellFrame
    /\ shphase = "waiting"
    /\ shprocs[Leader].state = "dead"
    /\ shphase' = "joining"
    /\ UNCHANGED <<shargs, shprocs, shsignals, shflags, shresult>>

\* Lines 222-224: process.wait raises TimeoutExpired, the shell still runs
TimeoutExpires ==
    /\ ShellFrame
    /\ shphase = "waiting"
    /\ shargs.timeout_ms > 0
    /\ shprocs[Leader].state = "running"
    /\ shphase' = "timeout"
    /\ shflags' = [aborted |-> TRUE, timeout_triggered |-> TRUE]
    /\ UNCHANGED <<shargs, shprocs, shsignals, shresult>>

\* Line 230: SIGTERM to the process group, then the sleep of line 231
SendFirstSignal ==
    /\ ShellFrame
    /\ shphase = "timeout"
    /\ shsignals' = Append(shsignals, signal_after(shsignals))
    /\ shprocs' = killpg(shprocs, signal_after(shsignals))
    /\ shphase' = "sleeping"
    /\ UNCHANGED <<shargs, shflags, shresult>>

\* Line 233: after the sleep, SIGKILL to the process group
SendSecondSignal ==
    /\ ShellFrame
    /\ shphase = "sleeping"
    /\ shsignals' = Append(shsignals, signal_after(shsignals))
    /\ shprocs' = killpg(shprocs, signal_after(shsignals))
    /\ shphase' = "joining"
    /\ UNCHANGED <<shargs, shflags, shresult>>

\* Lines 239-319: the reader thread joined (for 5 s at most), the result built
\* and returned
ShellReturn ==
    /\ ShellFrame
    /\ shphase = "joining"
    /\ shphase' = "returned"
    /\ shresult' = shell_result(shflags.aborted, shflags.timeout_triggered,
                                shargs.has_output, ~shflags.aborted)
    /\ UNCHANGED <<shargs, shprocs, shsignals, shflags>>

ShellNext ==
    \/ ShellReject
    \/ Spawn
    \/ MemberForks
    \/ MemberExits
    \/ WaitReturns
    \/ TimeoutExpires
    \/ SendFirstSignal
    \/ SendSecondSignal
    \/ ShellReturn

ShellIdle ==
    /\ shargs = [command_ok |-> FALSE, timeout_ms |-> 0, has_output |-> FALSE]
    /\ shphase = "start"
    /\ shprocs = [p \in Procs |-> NoProc]
    /\ shsignals = <<>>
    /\ shflags = NoFlags
    /\ shresult = NoShellResult

\* ============================================================================
\* The save_memory tool (tool_impl/save_memory.py)
\* ============================================================================
\* Text is a sequence of characters, with one exception: the 24 characters of
\* the header "## Gemini Added Memories" are the single element "H".  No other
\* character of the alphabet is a letter of the header, so the header is found
\* in a text exactly where an "H" stands.
MEMORY_SECTION_HEADER == <<"H">>

\* str.find(sub, start), positions counted from 0; -1 when there is none
StrFind(s, sub, start) ==
    LET found == {i \in start..(Len(s) - Len(sub)) : StartsWith(s, i + 1, sub)}
    IN IF found = {} THEN -1 ELSE CHOOSE i \in found : \A j \in found : i <= j

\* current_content.find("\n## ", start): the header itself begins with "## "
FindNextSection(s, start) ==
    LET at_h2 == StrFind(s, <<"\n", "#", "#", " ">>, start)
        at_header == StrFind(s, <<"\n">> \o MEMORY_SECTION_HEADER, start)
    IN IF at_h2 = -1 THEN at_header
       ELSE IF at_header = -1 THEN at_h2
       ELSE Min(at_h2, at_header)

EndsWith(s, suffix) ==
    Len(suffix) <= Len(s) /\ SubSeq(s, Len(s) - Len(suffix) + 1, Len(s)) = suffix

\* _ensure_newline_separation
ensure_newline_separation(current_content) ==
    IF Len(current_content) = 0 THEN <<>>
    ELSE IF \/ EndsWith(current_content, <<"\n", "\n">>)
            \/ EndsWith(current_content, <<"\r", "\n", "\r", "\n">>)
         THEN <<>>
    ELSE IF EndsWith(current_content, <<"\n">>) \/ EndsWith(current_content, CRLF)
         THEN <<"\n">>
    ELSE <<"\n", "\n">>

\* _read_memory_file_content: the file read in text mode, "" when there is none
read_memory_file_content(target) ==
    IF target.kind = "file" THEN ReadText(target.bytes) ELSE <<>>

\* The length of the run of dashes at s[i:]
RECURSIVE DashRun(_, _)
DashRun(s, i) ==
    IF i <= Len(s) /\ s[i] = "-" THEN 1 + DashRun(s, i + 1) ELSE 0

\* re.sub(r"^(-+\s*)+", "", s): runs of dashes, each with the whitespace after
\* it, taken off the front
RECURSIVE DropLeadingDashes(_)
DropLeadingDashes(s) ==
    IF DashRun(s, 1) = 0 THEN s
    ELSE DropLeadingDashes(LStrip(SubSeq(s, DashRun(s, 1) + 1, Len(s))))

\* Lines 58-61: the fact stripped, without its leading dashes
processed_text(fact) == Strip(DropLeadingDashes(Strip(fact)))

\* _compute_new_content
compute_new_content(current_content, fact) ==
    LET new_memory_item == <<"-", " ">> \o processed_text(fact)
        header_index == StrFind(current_content, MEMORY_SECTION_HEADER, 0)
    IN IF header_index = -1
       THEN current_content \o ensure_newline_separation(current_content)
              \o MEMORY_SECTION_HEADER \o <<"\n">> \o new_memory_item \o <<"\n">>
       ELSE LET start_of_section == header_index + Len(MEMORY_SECTION_HEADER)
                found == FindNextSection(current_content, start_of_section)
                end_of_section_index == IF found = -1 THEN Len(current_content)
                                        ELSE found
                before_section == RStrip(SubSeq(current_content, 1, start_of_section))
                section_content ==
                    RStrip(SubSeq(current_content, start_of_section + 1,
                                  end_of_section_index))
                      \o <<"\n">> \o new_memory_item
                after_section == SubSeq(current_content, end_of_section_index + 1,
                                        Len(current_content))
            IN RStrip(before_section \o <<"\n">> \o LStrip(section_content)
                        \o <<"\n">> \o after_section) \o <<"\n">>

NoModification == [given |-> FALSE, content |-> <<>>]

Modified(content) == [given |-> TRUE, content |-> content]

\* save_memory: the memory file it leaves and what it returns
save_memory(target, fact, modified) ==
    IF fact = <<>> \/ Strip(fact) = <<>>
    THEN [file |-> target, response |-> "INVALID_PARAMETER"]
    ELSE IF modified.given
    THEN [file |-> RegularFile(modified.content),
          response |-> "updated the memory file with your modifications"]
    ELSE [file |-> RegularFile(compute_new_content(read_memory_file_content(target),
                                                   fact)),
          response |-> "remembered"]

\* ---- what the model feeds the tool
MemoryLines ==
    { <<"H">>,
      <<"-", " ", "a">>,
      <<"-", " ", "b">>,
      <<" ", " ", "-", " ", "a">>,
      <<"#", "#", " ", "b">>,
      <<"#", " ", "b">>,
      <<"b">>,
      <<"b", " ", "H", " ", "b">>,
      <<>> }

MemoryEndings == { <<>>, <<"\n">> }

MemoryContents ==
    {JoinLines(ls) \o e : ls \in SeqsUpTo(MemoryLines, MaxMemoryLines) \ { <<>> },
                          e \in MemoryEndings}
      \cup { <<"H", "\r", "\n", "-", " ", "a", "\r", "\n">>,
             <<"H", "\n", "-", " ", "a", "\n", "\n", "#", "#", " ", "b", "\n", "b", "\n">> }

MemoryFiles == {Absent} \cup {RegularFile(c) : c \in MemoryContents \cup { <<>> }}

Facts ==
    { <<"a">>, <<" ", "a", " ">>, <<"-", " ", "a">>, <<"-">>, <<" ">>,
      <<"a", "\n", "#", "#", " ", "b">> }

MemoryCall(fact, modified) == [fact |-> fact, modified |-> modified]

MemoryInit ==
    /\ memfile \in MemoryFiles
    /\ mempre = Absent
    /\ memcalls = <<>>
    /\ memresponse = ""

\* A call of save_memory
SaveMemory ==
    /\ MemoryFrame
    /\ Len(memcalls) < MaxSaves
    /\ \E fact \in Facts, modified \in {NoModification, Modified(<<"b", "\n">>)} :
          LET outcome == save_memory(memfile, fact, modified) IN
          /\ memfile' = outcome.file
          /\ memresponse' = outcome.response
          /\ memcalls' = Append(memcalls, MemoryCall(fact, modified))
    /\ mempre' = memfile

MemoryNext == SaveMemory

MemoryIdle ==
    /\ memfile = Absent
    /\ mempre = Absent
    /\ memcalls = <<>>
    /\ memresponse = ""

\* ============================================================================
\* The tool functions as callables: the try block of each and what lies
\* outside it (tool_impl/*.py)
\* ============================================================================
ToolNames ==
    { "ask_user", "glob", "google_web_search", "list_directory", "read_file",
      "read_many_files", "replace", "run_shell_command", "save_memory",
      "search_file_content" }

\* The exceptions the body of a tool may meet; "none" when it meets none
Faults ==
    { "none", "PermissionError", "FileNotFoundError", "OSError", "TypeError",
      "ValueError", "UnicodeDecodeError" }

\* What a caller may pass as limit, by the type of the value
LimitKinds == { "None", "int", "float", "str", "list" }

\* min(limit, ABSOLUTE_MAX_ENTRIES) compares the two: an int orders with an int
\* and a float, and with nothing else
OrdersWithInt(kind) == kind \in { "int", "float" }

\* The statements of a tool that stand before its try block: list_directory
\* computes effective_limit there, the other tools have none.
prologue_raises(call) ==
    /\ call.tool = "list_directory"
    /\ call.limit # "None"
    /\ ~OrdersWithInt(call.limit)

\* The type of the error the except clauses of a tool return for an exception
handler_type(tool, fault) ==
    CASE tool = "ask_user" -> "ASK_USER_ERROR"
      [] tool = "glob" -> "GLOB_EXECUTION_ERROR"
      [] tool = "google_web_search" -> "WEB_SEARCH_FAILED"
      [] tool = "list_directory" -> "LS_ERROR"
      [] tool = "read_file" ->
           IF fault = "PermissionError" THEN "PERMISSION_DENIED" ELSE "READ_ERROR"
      [] tool = "read_many_files" -> "READ_ERROR"
      [] tool = "replace" ->
           IF fault = "PermissionError" THEN "PERMISSION_DENIED" ELSE "EDIT_ERROR"
      [] tool = "run_shell_command" -> "SHELL_EXECUTE_ERROR"
      [] tool = "save_memory" -> "MEMORY_TOOL_EXECUTION_ERROR"
      [] tool = "search_file_content" -> "GREP_EXECUTION_ERROR"

NoToolError == [given |-> FALSE, message |-> FALSE, type |-> ""]

\* An error of a result: whether it has a message, and its type
ToolError(type) == [given |-> TRUE, message |-> TRUE, type |-> type]

ToolNotCalled == [outcome |-> "not called", exception |-> "none", error |-> NoToolError]

ToolReturned(error) == [outcome |-> "returned", exception |-> "none", error |-> error]

ToolRaised(exception) == [outcome |-> "raised", exception |-> exception, error |-> NoToolError]

\* One call of a tool function: the statements before the try block, then the
\* try block with its except clauses
invoke(call) ==
    IF prologue_raises(call) THEN ToolRaised("TypeError")
    ELSE IF call.fault = "none" THEN ToolReturned(NoToolError)
    ELSE ToolReturned(ToolError(handler_type(call.tool, call.fault)))

ToolCallOf(tool, limit, fault) == [tool |-> tool, limit |-> limit, fault |-> fault]

NoToolCall == ToolCallOf("ask_user", "None", "none")

\* limit is a parameter of list_directory alone
TotalInit ==
    /\ tlout = ToolNotCalled
    /\ \E tool \in ToolNames, fault \in Faults, limit \in LimitKinds :
         /\ tool # "list_directory" => limit = "None"
         /\ tlcall = ToolCallOf(tool, limit, fault)

ToolCall ==
    /\ TotalFrame
    /\ tlout = ToolNotCalled
    /\ tlout' = invoke(tlcall)
    /\ UNCHANGED tlcall

TotalNext == ToolCall

TotalIdle ==
    /\ tlcall = NoToolCall
    /\ tlout = ToolNotCalled

\* ============================================================================
\* The checks of read_file before it reads the file (tool_impl/read_file.py)
\* ============================================================================
MAX_FILE_SIZE_BYTES == 10485760

IMAGE_EXTENSIONS == { ".png", ".jpg", ".jpeg", ".gif", ".webp", ".bmp", ".svg" }

AUDIO_EXTENSIONS == { ".mp3", ".wav", ".aiff", ".aac", ".ogg", ".flac" }

PDF_EXTENSION == ".pdf"

\* _is_binary_file, on the lower-cased extension of the path
is_binary_file(ext) ==
    ext \in IMAGE_EXTENSIONS \/ ext \in AUDIO_EXTENSIONS \/ ext = PDF_EXTENSION

\* What read_file returns, as far as its checks decide it: the type of the
\* error, or the kind of content handed back
SizeError(type) == [called |-> TRUE, error |-> type, content |-> "none"]

Content(kind) == [called |-> TRUE, error |-> "", content |-> kind]

NotYetRead == [called |-> FALSE, error |-> "", content |-> "none"]

\* read_file up to the point where it opens the file: the path exists, is no
\* directory, is no larger than the maximum, and is binary or text
read_file_checks(target) ==
    IF target.kind = "absent" THEN SizeError("FILE_NOT_FOUND")
    ELSE IF target.kind = "directory" THEN SizeError("PATH_IS_DIRECTORY")
    ELSE IF target.size > MAX_FILE_SIZE_BYTES THEN SizeError("FILE_TOO_LARGE")
    ELSE IF is_binary_file(target.ext) THEN Content("inlineData")
    ELSE Content("text")

\* Sizes at and around the maximum, and sizes far from it
FileSizes ==
    { 0, 1, MAX_FILE_SIZE_BYTES - 1, MAX_FILE_SIZE_BYTES, MAX_FILE_SIZE_BYTES + 1,
      11 * 1024 * 1024 }

Extensions == IMAGE_EXTENSIONS \cup AUDIO_EXTENSIONS \cup { PDF_EXTENSION, ".txt", "" }

SizedFile(size, ext) == [kind |-> "file", size |-> size, ext |-> ext]

NoSizedFile == [kind |-> "absent", size |-> 0, ext |-> ""]

SizeInit ==
    /\ szresult = NotYetRead
    /\ \/ szfile = NoSizedFile
       \/ szfile = [kind |-> "directory", size |-> 0, ext |-> ""]
       \/ \E size \in FileSizes, ext \in Extensions : szfile = SizedFile(size, ext)

\* One call of read_file without offset and limit
ReadSized ==
    /\ SizeFrame
    /\ ~szresult.called
    /\ szresult' = read_file_checks(szfile)
    /\ UNCHANGED szfile

SizeNext == ReadSized

SizeIdle ==
    /\ szfile = NoSizedFile
    /\ szresult = NotYetRead

\* ============================================================================
\* The strategies of replace, one step per strategy (tool_impl/replace.py)
\* ============================================================================
\* replace with the whitespace-flexible strategy left out of the order
next_strategy_SkipsFlexible(strategy, result) ==
    IF strategy = "" THEN "exact"
    ELSE IF result.found THEN "none"
    ELSE IF strategy = "exact" THEN "regex"
    ELSE "none"

\* Which strategy replace runs after the one it tried last gave result: each
\* "if result is None" of replace, "none" when it goes on with the result.
next_strategy(strategy, result) ==
    IF strategy = "" THEN "exact"
    ELSE IF result.found THEN "none"
    ELSE IF strategy = "exact" THEN "flexible"
    ELSE IF strategy = "flexible" THEN "regex"
    ELSE "none"

\* Contents with two lines the regex strategy matches, and with a line only
\* the flexible strategy matches
CascadeContents ==
    {NormalizeNewlines(ReadText(f.bytes)) : f \in Files \ {NoFile}}
      \cup { <<"a", " ", "=", " ", "b", "\n", "a", " ", "=", " ", "b">>,
             <<" ", "a", " ", "=", "b", "\n", "a", "=", " ", "b", "\n">>,
             <<" ", "a", " ", "b", "\n", "a", " ", " ", "b">> }

CascadeCall(content, old_string, new_string) ==
    [content |-> content, old_string |-> old_string, new_string |-> new_string]

NoCascade == CascadeCall(<<>>, <<"a">>, <<>>)

\* replace comes to its strategies with an existing file, a non-empty
\* old_string and a new_string that differs from it
CascadeInit ==
    /\ \E content \in CascadeContents, old_string \in OldStrings \ { <<>> },
         new_string \in NewStrings :
         /\ old_string # new_string
         /\ cscall = CascadeCall(content, old_string, new_string)
    /\ csstrategy = ""
    /\ cstried = <<>>
    /\ csresult = NoResult
    /\ csdone = FALSE

TryExact ==
    /\ CascadeFrame
    /\ ~csdone
    /\ next_strategy(csstrategy, csresult) = "exact"
    /\ csresult' = calculate_exact_replacement(cscall.content, cscall.old_string,
                                               cscall.new_string)
    /\ csstrategy' = "exact"
    /\ cstried' = Append(cstried, "exact")
    /\ UNCHANGED <<cscall, csdone>>

TryFlexible ==
    /\ CascadeFrame
    /\ ~csdone
    /\ next_strategy(csstrategy, csresult) = "flexible"
    /\ csresult' = calculate_flexible_replacement(cscall.content, cscall.old_string,
                                                  cscall.new_string)
    /\ csstrategy' = "flexible"
    /\ cstried' = Append(cstried, "flexible")
    /\ UNCHANGED <<cscall, csdone>>

TryRegex ==
    /\ CascadeFrame
    /\ ~csdone
    /\ next_strategy(csstrategy, csresult) = "regex"
    /\ csresult' = calculate_regex_replacement(cscall.content, cscall.old_string,
                                               cscall.new_string)
    /\ csstrategy' = "regex"
    /\ cstried' = Append(cstried, "regex")
    /\ UNCHANGED <<cscall, csdone>>

\* replace leaves its strategies: with a result, or with None after the last
StrategiesDone ==
    /\ CascadeFrame
    /\ ~csdone
    /\ next_strategy(csstrategy, csresult) = "none"
    /\ csdone' = TRUE
    /\ UNCHANGED <<cscall, csstrategy, cstried, csresult>>

CascadeNext ==
    \/ TryExact
    \/ TryFlexible
    \/ TryRegex
    \/ StrategiesDone

CascadeIdle ==
    /\ cscall = NoCascade
    /\ csstrategy = ""
    /\ cstried = <<>>
    /\ csresult = NoResult
    /\ csdone = FALSE

\* ============================================================================
\* The strategies of search_file_content, one step per strategy
\* (tool_impl/search_file_content.py)
\* ============================================================================
\* search_file_content that goes on to the next strategy when the list of
\* matches is empty as well
next_search_EmptyFallsThrough(ran, matches) ==
    IF matches.ran /\ matches.matches # <<>> THEN "none"
    ELSE IF ran = <<>> THEN "git grep"
    ELSE IF Last(ran) = "git grep" THEN "system grep"
    ELSE IF Last(ran) = "system grep" THEN "python fallback"
    ELSE "none"

\* Which strategy search_file_content calls next: each "if matches is None"
\* of it, "none" when it goes on with the matches it has.
next_search(ran, matches) ==
    IF ran = <<>> THEN "git grep"
    ELSE IF matches.ran THEN "none"
    ELSE IF Last(ran) = "git grep" THEN "system grep"
    ELSE IF Last(ran) = "system grep" THEN "python fallback"
    ELSE "none"

\* The environment as _git_grep sees it and as _system_grep sees it: each
\* command prints its own output
GitEnv(env) ==
    SearchEnv(TRUE, "directory", env.search_path, env.include, env.git, env.grep,
              env.git_stdout, env.tree)

GrepEnv(env) ==
    SearchEnv(TRUE, "directory", env.search_path, env.include, env.git, env.grep,
              env.grep_stdout, env.tree)

\* git grep prints paths from the root, grep -r . prints them with "./" in
\* front; the line numbers tell the three strategies apart
GitStdouts ==
    { <<>>, << <<"a", ":", "1", ":", "x">> >>,
      << <<".", ".", "/", "a", ":", "1", ":", "x">> >> }

GrepStdouts ==
    { <<>>, << <<".", "/", "a", ":", "2", ":", "x">> >> }

CascadeTrees ==
    { <<>>,
      << [dir |-> <<>>, name |-> <<"a">>, lines |-> <<FALSE, FALSE, TRUE>>,
          readable |-> TRUE] >>,
      << [dir |-> <<>>, name |-> <<"a">>, lines |-> <<FALSE>>, readable |-> TRUE] >> }

NoSearchCascade ==
    [search_path |-> <<"/", "r">>, include |-> <<>>, git |-> "ran", grep |-> "ran",
     git_stdout |-> <<>>, grep_stdout |-> <<>>, tree |-> <<>>]

\* search_file_content comes to its strategies with a valid pattern and a
\* search root that is a directory
SearchCascadeInit ==
    /\ \E git \in {"ran", "unavailable", "no repository", "failed"},
         grep \in {"ran", "unavailable", "failed"},
         git_stdout \in GitStdouts, grep_stdout \in GrepStdouts,
         tree \in CascadeTrees :
         scenv = [search_path |-> <<"/", "r">>, include |-> <<>>, git |-> git,
                  grep |-> grep, git_stdout |-> git_stdout,
                  grep_stdout |-> grep_stdout, tree |-> tree]
    /\ scstrategy = "none"
    /\ scran = <<>>
    /\ scmatches = NoMatches
    /\ scdone = FALSE

GitGrep ==
    /\ SearchCascadeFrame
    /\ ~scdone
    /\ next_search(scran, scmatches) = "git grep"
    /\ scmatches' = git_grep(GitEnv(scenv), DEFAULT_TOTAL_MAX_MATCHES)
    /\ scstrategy' = IF scmatches'.ran THEN "git grep" ELSE scstrategy
    /\ scran' = Append(scran, "git grep")
    /\ UNCHANGED <<scenv, scdone>>

SystemGrep ==
    /\ SearchCascadeFrame
    /\ ~scdone
    /\ next_search(scran, scmatches) = "system grep"
    /\ scmatches' = system_grep(GrepEnv(scenv), DEFAULT_TOTAL_MAX_MATCHES)
    /\ scstrategy' = IF scmatches'.ran THEN "system grep" ELSE scstrategy
    /\ scran' = Append(scran, "system grep")
    /\ UNCHANGED <<scenv, scdone>>

PythonGrep ==
    /\ SearchCascadeFrame
    /\ ~scdone
    /\ next_search(scran, scmatches) = "python fallback"
    /\ scmatches' = Matches(python_grep(GitEnv(scenv), DEFAULT_TOTAL_MAX_MATCHES))
    /\ scstrategy' = "python fallback"
    /\ scran' = Append(scran, "python fallback")
    /\ UNCHANGED <<scenv, scdone>>

\* search_file_content leaves its strategies with the matches of one of them
SearchStrategiesDone ==
    /\ SearchCascadeFrame
    /\ ~scdone
    /\ next_search(scran, scmatches) = "none"
    /\ scdone' = TRUE
    /\ UNCHANGED <<scenv, scstrategy, scran, scmatches>>

SearchCascadeNext ==
    \/ GitGrep
    \/ SystemGrep
    \/ PythonGrep
    \/ SearchStrategiesDone

SearchCascadeIdle ==
    /\ scenv = NoSearchCascade
    /\ scstrategy = "none"
    /\ scran = <<>>
    /\ scmatches = NoMatches
    /\ scdone = FALSE

\* ============================================================================
\* Two save_memory calls on one memory file (tool_impl/save_memory.py).  The
\* calls take no lock; each reads the file, computes new_content, opens the
\* file for writing and writes.  The steps of the two interleave freely.
\* ============================================================================
Callers == {1, 2}

\* open(file_path, "w"): the file is created or cut to length 0, and the
\* position of the new descriptor is 0
truncate(target) == RegularFile(<<>>)

\* f.write(new_content) and the close that flushes it: the bytes go to the
\* file at the position of the descriptor, which is 0; bytes of the file past
\* the end of what is written stay
write_at_start(target, content) ==
    RegularFile(content \o SubSeq(target.bytes, Len(content) + 1, Len(target.bytes)))

RaceFacts == { <<"a">>, <<"b", "b">> }

RaceFiles ==
    { Absent, RegularFile(<<"b", "\n">>),
      RegularFile(<<"H", "\n", "-", " ", "b", "\n">>) }

RaceInit ==
    /\ mrfile \in RaceFiles
    /\ mrfact \in [Callers -> RaceFacts]
    /\ mrpc = [p \in Callers |-> "start"]
    /\ mrnew = [p \in Callers |-> <<>>]
    /\ mrlast = 0

\* Lines 163-164: the call reads the file and computes new_content
RaceRead(p) ==
    /\ RaceFrame
    /\ mrpc[p] = "start"
    /\ mrnew' = [mrnew EXCEPT ![p] =
                   compute_new_content(read_memory_file_content(mrfile), mrfact[p])]
    /\ mrpc' = [mrpc EXCEPT ![p] = "computed"]
    /\ UNCHANGED <<mrfile, mrfact, mrlast>>

\* Line 167: open(file_path, "w")
RaceOpen(p) ==
    /\ RaceFrame
    /\ mrpc[p] = "computed"
    /\ mrfile' = truncate(mrfile)
    /\ mrpc' = [mrpc EXCEPT ![p] = "opened"]
    /\ UNCHANGED <<mrfact, mrnew, mrlast>>

\* Line 168 and the end of the with block: the content is written and the
\* file closed; the call returns
RaceWrite(p) ==
    /\ RaceFrame
    /\ mrpc[p] = "opened"
    /\ mrfile' = write_at_start(mrfile, mrnew[p])
    /\ mrlast' = p
    /\ mrpc' = [mrpc EXCEPT ![p] = "returned"]
    /\ UNCHANGED <<mrfact, mrnew>>

RaceNext == \E p \in Callers : RaceRead(p) \/ RaceOpen(p) \/ RaceWrite(p)

RaceIdle ==
    /\ mrfile = Absent
    /\ mrfact = [p \in Callers |-> <<"a">>]
    /\ mrpc = [p \in Callers |-> "start"]
    /\ mrnew = [p \in Callers |-> <<>>]
    /\ mrlast = 0

\* ============================================================================
\* Paging through a directory: a first list_directory call, then calls with
\* the next_offset of the call before and the same limit and ignore patterns,
\* for as long as a next_offset is attached.
\* ============================================================================
MaxPages == 7

PageDirSizes == {1, 3, 100, 101, 501}

PageInit ==
    /\ pgdir \in {DirOf(n) : n \in PageDirSizes}
    /\ pgargs = NoListArgs
    /\ pgfirst = 0
    /\ pgresult = NotListed
    /\ pgvisited = <<>>
    /\ pgcalls = 0

\* The first call, with any limit and offset
FirstPage ==
    /\ PageFrame
    /\ pgcalls = 0
    /\ \E ignore \in BOOLEAN, limit \in ListLimits, offset \in ListOffsets :
         LET r == list_directory(pgdir, ignore, limit, offset, FALSE) IN
         /\ pgargs' = [ignore |-> ignore, limit |-> limit, offset |-> offset]
         /\ pgfirst' = offset
         /\ pgresult' = r
         /\ pgvisited' = r.entries
    /\ pgcalls' = 1
    /\ UNCHANGED pgdir

\* The caller follows the next_offset of the result: the same call with
\* offset = next_offset
FollowNextOffset ==
    /\ PageFrame
    /\ pgcalls >= 1
    /\ pgcalls < MaxPages
    /\ pgresult.truncated
    /\ LET r == list_directory(pgdir, pgargs.ignore, pgargs.limit,
                               pgresult.next_offset, FALSE) IN
         /\ pgargs' = [pgargs EXCEPT !.offset = pgresult.next_offset]
         /\ pgresult' = r
         /\ pgvisited' = pgvisited \o r.entries
    /\ pgcalls' = pgcalls + 1
    /\ UNCHANGED <<pgdir, pgfirst>>

PageNext ==
    \/ FirstPage
    \/ FollowNextOffset

PageIdle ==
    /\ pgdir = NoDir
    /\ pgargs = NoListArgs
    /\ pgfirst = 0
    /\ pgresult = NotListed
    /\ pgvisited = <<>>
    /\ pgcalls = 0

\* ============================================================================
\* replace and the filesystem around its target: the parent directory, which
\* os.makedirs creates for a new file, and the target file.  A write can fail
\* after the file was opened for writing, when new content cannot be encoded.
\* ============================================================================
Disk(parent, target) == [parent |-> parent, file |-> target]

\* Mutant: the parent directory is made as soon as old_string is empty.
replace_on_disk_MakesDirsFirst(fs, old_string, new_string, expected_replacements, encodable) ==
    LET r == replace(fs.file, old_string, new_string, expected_replacements)
        made == old_string = <<>>
    IN IF r.response.success /\ ~encodable
       THEN [fs |-> Disk(fs.parent \/ made, FileOf(<<>>)),
             response |-> Failure("EDIT_ERROR", 0)]
       ELSE [fs |-> Disk(fs.parent \/ made, r.file), response |-> r.response]

\* replace with its effects on the parent directory.  is_new_file (line 200)
\* leads to os.makedirs (lines 203-205); both writes (lines 207-208 and
\* 284-285) open the file with mode "w" and then write; encodable: the content
\* written can be encoded; if not, write raises after the open has emptied or
\* created the file, and the handler of line 313 returns EDIT_ERROR.
replace_on_disk(fs, old_string, new_string, expected_replacements, encodable) ==
    LET r == replace(fs.file, old_string, new_string, expected_replacements)
        is_new_file == old_string # new_string /\ old_string = <<>> /\ ~fs.file.exists
    IN IF r.response.success /\ ~encodable
       THEN [fs |-> Disk(fs.parent \/ is_new_file, FileOf(<<>>)),
             response |-> Failure("EDIT_ERROR", 0)]
       ELSE [fs |-> Disk(fs.parent \/ is_new_file, r.file), response |-> r.response]

\* The target with its parent directory, and no target in a directory that
\* does not exist
Disks == {Disk(FALSE, NoFile)} \cup {Disk(TRUE, f) : f \in Files}

DiskInit ==
    /\ dkfs \in Disks
    /\ dkpre = Disk(FALSE, NoFile)
    /\ dkcall = NoCall
    /\ dkresponse = NotCalled

\* One call of replace.  The call starts from any of Disks, so the first call
\* from each shows every result there is.
ReplaceOnDisk ==
    /\ DiskFrame
    /\ dkresponse = NotCalled
    /\ \E old_string \in OldStrings, new_string \in NewStrings, e \in Expectations,
          encodable \in BOOLEAN :
         LET r == replace_on_disk(dkfs, old_string, new_string, e, encodable) IN
         /\ dkfs' = r.fs
         /\ dkresponse' = r.response
         /\ dkcall' = [old_string |-> old_string, new_string |-> new_string,
                       expected_replacements |-> e]
    /\ dkpre' = dkfs

DiskNext == ReplaceOnDisk

DiskIdle ==
    /\ dkfs = Disk(FALSE, NoFile)
    /\ dkpre = Disk(FALSE, NoFile)
    /\ dkcall = NoCall
    /\ dkresponse = NotCalled

\* ============================================================================
\* The hooks of one CompleteTaskMiddleware instance called in any order, as a
\* caller that keeps the instance over several runs can call them.
\* ============================================================================
MaxAfterModelCalls == 4

HookInit ==
    /\ hkmw = MiddlewareInit
    /\ hkseen = <<>>
    /\ hklast = "none"
    /\ hkwarned = FALSE

\* before_model is called with a message list
CallBeforeModel ==
    /\ HookFrame
    /\ hkwarned' = (before_model(hkmw, <<"user_query">>) # <<"user_query">>)
    /\ hklast' = "before_model"
    /\ UNCHANGED <<hkmw, hkseen>>

\* after_model is called with any parsed response
CallAfterModel ==
    /\ HookFrame
    /\ Len(hkseen) < MaxAfterModelCalls
    /\ \E p \in Responses :
         /\ hkmw' = after_model(hkmw, p).mw
         /\ hkseen' = Append(hkseen, KindOf(p))
    /\ hklast' = "after_model"
    /\ UNCHANGED hkwarned

HookNext ==
    \/ CallBeforeModel
    \/ CallAfterModel

HookIdle ==
    /\ hkmw = MiddlewareInit
    /\ hkseen = <<>>
    /\ hklast = "none"
    /\ hkwarned = FALSE

\* ------------------------------------------------------------ specifications
InitTerm ==
    /\ TermInit
    /\ CompactIdle
    /\ ReplaceIdle
    /\ WriteIdle
    /\ ReadIdle
    /\ ListIdle
    /\ SearchIdle
    /\ TodoIdle
    /\ TreeIdle
    /\ ShellIdle
    /\ MemoryIdle
    /\ TotalIdle
    /\ SizeIdle
    /\ CascadeIdle
    /\ SearchCascadeIdle
    /\ RaceIdle
    /\ PageIdle
    /\ DiskIdle
    /\ HookIdle

InitCompact ==
    /\ CompactInit
    /\ TermInit
    /\ ReplaceIdle
    /\ WriteIdle
    /\ ReadIdle
    /\ ListIdle
    /\ SearchIdle
    /\ TodoIdle
    /\ TreeIdle
    /\ ShellIdle
    /\ MemoryIdle
    /\ TotalIdle
    /\ SizeIdle
    /\ CascadeIdle
    /\ SearchCascadeIdle
    /\ RaceIdle
    /\ PageIdle
    /\ DiskIdle
    /\ HookIdle

InitReplace ==
    /\ ReplaceInit
    /\ TermInit
    /\ CompactIdle
    /\ WriteIdle
    /\ ReadIdle
    /\ ListIdle
    /\ SearchIdle
    /\ TodoIdle
    /\ TreeIdle
    /\ ShellIdle
    /\ MemoryIdle
    /\ TotalIdle
    /\ SizeIdle
    /\ CascadeIdle
    /\ SearchCascadeIdle
    /\ RaceIdle
    /\ PageIdle
    /\ DiskIdle
    /\ HookIdle

InitWrite ==
    /\ WriteInit
    /\ TermInit
    /\ CompactIdle
    /\ ReplaceIdle
    /\ ReadIdle
    /\ ListIdle
    /\ SearchIdle
    /\ TodoIdle
    /\ TreeIdle
    /\ ShellIdle
    /\ MemoryIdle
    /\ TotalIdle
    /\ SizeIdle
    /\ CascadeIdle
    /\ SearchCascadeIdle
    /\ RaceIdle
    /\ PageIdle
    /\ DiskIdle
    /\ HookIdle

InitRead ==
    /\ ReadInit
    /\ TermInit
    /\ CompactIdle
    /\ ReplaceIdle
    /\ WriteIdle
    /\ ListIdle
    /\ SearchIdle
    /\ TodoIdle
    /\ TreeIdle
    /\ ShellIdle
    /\ MemoryIdle
    /\ TotalIdle
    /\ SizeIdle
    /\ CascadeIdle
    /\ SearchCascadeIdle
    /\ RaceIdle
    /\ PageIdle
    /\ DiskIdle
    /\ HookIdle

InitList ==
    /\ ListInit
    /\ TermInit
    /\ CompactIdle
    /\ ReplaceIdle
    /\ WriteIdle
    /\ ReadIdle
    /\ SearchIdle
    /\ TodoIdle
    /\ TreeIdle
    /\ ShellIdle
    /\ MemoryIdle
    /\ TotalIdle
    /\ SizeIdle
    /\ CascadeIdle
    /\ SearchCascadeIdle
    /\ RaceIdle
    /\ PageIdle
    /\ DiskIdle
    /\ HookIdle

InitSearch ==
    /\ SearchInit
    /\ TermInit
    /\ CompactIdle
    /\ ReplaceIdle
    /\ WriteIdle
    /\ ReadIdle
    /\ ListIdle
    /\ TodoIdle
    /\ TreeIdle
    /\ ShellIdle
    /\ MemoryIdle
    /\ TotalIdle
    /\ SizeIdle
    /\ CascadeIdle
    /\ SearchCascadeIdle
    /\ RaceIdle
    /\ PageIdle
    /\ DiskIdle
    /\ HookIdle

InitTodos ==
    /\ TodoInit
    /\ TermInit
    /\ CompactIdle
    /\ ReplaceIdle
    /\ WriteIdle
    /\ ReadIdle
    /\ ListIdle
    /\ SearchIdle
    /\ TreeIdle
    /\ ShellIdle
    /\ MemoryIdle
    /\ TotalIdle
    /\ SizeIdle
    /\ CascadeIdle
    /\ SearchCascadeIdle
    /\ RaceIdle
    /\ PageIdle
    /\ DiskIdle
    /\ HookIdle

InitTree ==
    /\ TreeInit
    /\ TermInit
    /\ CompactIdle
    /\ ReplaceIdle
    /\ WriteIdle
    /\ ReadIdle
    /\ ListIdle
    /\ SearchIdle
    /\ TodoIdle
    /\ ShellIdle
    /\ MemoryIdle
    /\ TotalIdle
    /\ SizeIdle
    /\ CascadeIdle
    /\ SearchCascadeIdle
    /\ RaceIdle
    /\ PageIdle
    /\ DiskIdle
    /\ HookIdle

InitShell ==
    /\ ShellInit
    /\ TermInit
    /\ CompactIdle
    /\ ReplaceIdle
    /\ WriteIdle
    /\ ReadIdle
    /\ ListIdle
    /\ SearchIdle
    /\ TodoIdle
    /\ TreeIdle
    /\ MemoryIdle
    /\ TotalIdle
    /\ SizeIdle
    /\ CascadeIdle
    /\ SearchCascadeIdle
    /\ RaceIdle
    /\ PageIdle
    /\ DiskIdle
    /\ HookIdle

InitMemory ==
    /\ MemoryInit
    /\ TermInit
    /\ CompactIdle
    /\ ReplaceIdle
    /\ WriteIdle
    /\ ReadIdle
    /\ ListIdle
    /\ SearchIdle
    /\ TodoIdle
    /\ TreeIdle
    /\ ShellIdle
    /\ TotalIdle
    /\ SizeIdle
    /\ CascadeIdle
    /\ SearchCascadeIdle
    /\ RaceIdle
    /\ PageIdle
    /\ DiskIdle
    /\ HookIdle

InitTotal ==
    /\ TotalInit
    /\ TermInit
    /\ CompactIdle
    /\ ReplaceIdle
    /\ WriteIdle
    /\ ReadIdle
    /\ ListIdle
    /\ SearchIdle
    /\ TodoIdle
    /\ TreeIdle
    /\ ShellIdle
    /\ MemoryIdle
    /\ SizeIdle
    /\ CascadeIdle
    /\ SearchCascadeIdle
    /\ RaceIdle
    /\ PageIdle
    /\ DiskIdle
    /\ HookIdle

InitSize ==
    /\ SizeInit
    /\ TermInit
    /\ CompactIdle
    /\ ReplaceIdle
    /\ WriteIdle
    /\ ReadIdle
    /\ ListIdle
    /\ SearchIdle
    /\ TodoIdle
    /\ TreeIdle
    /\ ShellIdle
    /\ MemoryIdle
    /\ TotalIdle
    /\ CascadeIdle
    /\ SearchCascadeIdle
    /\ RaceIdle
    /\ PageIdle
    /\ DiskIdle
    /\ HookIdle

InitCascade ==
    /\ CascadeInit
    /\ TermInit
    /\ CompactIdle
    /\ ReplaceIdle
    /\ WriteIdle
    /\ ReadIdle
    /\ ListIdle
    /\ SearchIdle
    /\ TodoIdle
    /\ TreeIdle
    /\ ShellIdle
    /\ MemoryIdle
    /\ TotalIdle
    /\ SizeIdle
    /\ SearchCascadeIdle
    /\ RaceIdle
    /\ PageIdle
    /\ DiskIdle
    /\ HookIdle

InitSearchCascade ==
    /\ SearchCascadeInit
    /\ TermInit
    /\ CompactIdle
    /\ ReplaceIdle
    /\ WriteIdle
    /\ ReadIdle
    /\ ListIdle
    /\ SearchIdle
    /\ TodoIdle
    /\ TreeIdle
    /\ ShellIdle
    /\ MemoryIdle
    /\ TotalIdle
    /\ SizeIdle
    /\ CascadeIdle
    /\ RaceIdle
    /\ PageIdle
    /\ DiskIdle
    /\ HookIdle

InitMemoryRace ==
    /\ RaceInit
    /\ TermInit
    /\ CompactIdle
    /\ ReplaceIdle
    /\ WriteIdle
    /\ ReadIdle
    /\ ListIdle
    /\ SearchIdle
    /\ TodoIdle
    /\ TreeIdle
    /\ ShellIdle
    /\ MemoryIdle
    /\ TotalIdle
    /\ SizeIdle
    /\ CascadeIdle
    /\ SearchCascadeIdle
    /\ PageIdle
    /\ DiskIdle
    /\ HookIdle

InitListPages ==
    /\ PageInit
    /\ TermInit
    /\ CompactIdle
    /\ ReplaceIdle
    /\ WriteIdle
    /\ ReadIdle
    /\ ListIdle
    /\ SearchIdle
    /\ TodoIdle
    /\ TreeIdle
    /\ ShellIdle
    /\ MemoryIdle
    /\ TotalIdle
    /\ SizeIdle
    /\ CascadeIdle
    /\ SearchCascadeIdle
    /\ RaceIdle
    /\ DiskIdle
    /\ HookIdle

InitReplaceDisk ==
    /\ DiskInit
    /\ TermInit
    /\ CompactIdle
    /\ ReplaceIdle
    /\ WriteIdle
    /\ ReadIdle
    /\ ListIdle
    /\ SearchIdle
    /\ TodoIdle
    /\ TreeIdle
    /\ ShellIdle
    /\ MemoryIdle
    /\ TotalIdle
    /\ SizeIdle
    /\ CascadeIdle
    /\ SearchCascadeIdle
    /\ RaceIdle
    /\ PageIdle
    /\ HookIdle

InitHooks ==
    /\ HookInit
    /\ TermInit
    /\ CompactIdle
    /\ ReplaceIdle
    /\ WriteIdle
    /\ ReadIdle
    /\ ListIdle
    /\ SearchIdle
    /\ TodoIdle
    /\ TreeIdle
    /\ ShellIdle
    /\ MemoryIdle
    /\ TotalIdle
    /\ SizeIdle
    /\ CascadeIdle
    /\ SearchCascadeIdle
    /\ RaceIdle
    /\ PageIdle
    /\ DiskIdle

SpecTerm == InitTerm /\ [][TermNext]_vars

SpecCompact == InitCompact /\ [][CompactNext]_vars

SpecReplace == InitReplace /\ [][ReplaceNext]_vars

SpecWrite == InitWrite /\ [][WriteNext]_vars

SpecRead == InitRead /\ [][ReadNext]_vars

SpecList == InitList /\ [][ListNext]_vars

SpecSearch == InitSearch /\ [][SearchNext]_vars

SpecTodos == InitTodos /\ [][TodoNext]_vars

SpecTree == InitTree /\ [][TreeNext]_vars

SpecShell == InitShell /\ [][ShellNext]_vars

SpecMemory == InitMemory /\ [][MemoryNext]_vars

SpecTotal == InitTotal /\ [][TotalNext]_vars

SpecSize == InitSize /\ [][SizeNext]_vars

SpecCascade == InitCascade /\ [][CascadeNext]_vars

SpecSearchCascade == InitSearchCascade /\ [][SearchCascadeNext]_vars

SpecMemoryRace == InitMemoryRace /\ [][RaceNext]_vars

SpecListPages == InitListPages /\ [][PageNext]_vars

SpecReplaceDisk == InitReplaceDisk /\ [][DiskNext]_vars

SpecHooks == InitHooks /\ [][HookNext]_vars

\* ============================================================================
\* Claims about the termination protocol (checked under SpecTerm)
\* ============================================================================
\* The turn in progress has been through after_model.
AfterModelRan == pc \in {"dispatch", "done"}

LastKind == IF hist = <<>> THEN "" ELSE Last(hist)

PrevKind == IF Len(hist) < 2 THEN "" ELSE hist[Len(hist) - 1]

\* The effects of after_model on a turn whose response holds complete_task: the
\* tool-call list is emptied, nothing of the turn is dispatched, and the result
\* parameter is captured.
CompleteTaskIntercepted ==
    /\ parsed.tool_calls = <<>>
    /\ dispatched = 0
    /\ Last(conv) # "tool"
    /\ mw.task_completed
    /\ mw.final_result = GetResult(emitted[FirstCompleteTask(emitted)])

\* C1: whenever the response handed to after_model contains a complete_task
\* call (alone or with other calls), the turn's tool calls are all dropped, no
\* tool message is appended for them, task_completed is true, final_result is
\* the call's result parameter, and the run ends with terminate_reason = GOAL.
C1_CompleteTaskEndsRunAsGoal ==
    (LastKind = "complete" /\ AfterModelRan) =>
        /\ CompleteTaskIntercepted
        /\ pc = "done" => terminate_reason = "GOAL"

GraceTurnPending == LastKind = "none" /\ mw.no_tool_call_count = 1

\* C3: a silent turn that brings no_tool_call_count to 1 forces continuation,
\* the before_model hook of the grace turn puts the warning last in the list
\* sent to the model, and a complete_task call on the grace turn ends the run
\* with terminate_reason = GOAL.
C3_GraceTurnThenGoal ==
    /\ (GraceTurnPending /\ pc = "dispatch") => force_continue
    /\ (GraceTurnPending /\ pc = "invoke") =>
          (sent # <<>> /\ Last(sent) = GraceWarning)
    /\ (pc = "done" /\ PrevKind = "none" /\ LastKind = "complete") =>
          terminate_reason = "GOAL"

\* ============================================================================
\* Claims about context compaction (checked under SpecCompact)
\* ============================================================================
Compacted == clast = "compacted"

SystemOf(msgs) == SelectSeq(msgs, IsSystem)

\* s with its k-th element taken out
Without(s, k) == SubSeq(s, 1, k - 1) \o SubSeq(s, k + 1, Len(s))

IsToolOutput(msg) == msg.role \in {"tool", "function"}

\* C4: whenever before_model performs compaction, the token estimate of the
\* list it returns is at most the token estimate of the list it was given.
C4_CompactionNeverGrowsTokens ==
    Compacted => count_messages_tokens(cmsgs) <= count_messages_tokens(cinput)

\* C5: whenever compaction is applied to a non-empty list, the newest message
\* of the input (as it is, or with its tool output truncated) is in the output.
C5_NewestMessagePreserved ==
    (Compacted /\ cinput # <<>>) =>
        \/ Last(cinput) \in Range(cmsgs)
        \/ TruncateMessage(config, Last(cinput)) \in Range(cmsgs)

\* C6: compaction keeps every system message of the input, unchanged and in
\* the same relative order, and adds at most one system message, the snapshot
\* or the fallback notice.
C6_SystemMessagesPreserved ==
    Compacted =>
        LET si == SystemOf(cinput)
            so == SystemOf(cmsgs)
        IN \/ so = si
           \/ \E k \in 1..Len(so) :
                /\ Without(so, k) = si
                /\ so[k].content[1].tag \in {"compacted", "snapshot"}

\* C6 witness: a compaction of a list with two system messages that dropped
\* conversational messages and truncated a tool output.
C6_Witness ==
    /\ Compacted
    /\ Len(SystemOf(cinput)) >= 2
    /\ Len(cmsgs) < Len(cinput)
    /\ ctout # ctin

\* C7: with no snapshot generator, compacting the output of a compaction again
\* under the same configuration returns the same message list.
C7_CompactionIdempotent ==
    (crepeat /\ ~config.enable_state_snapshot) => cmsgs = cinput

\* Every tool call of an assistant message is answered by exactly one tool
\* message, which comes after it.
WellPaired(msgs) ==
    \A i \in 1..Len(msgs) :
        \A c \in 1..Len(msgs[i].tool_calls) :
            /\ Cardinality({j \in 1..Len(msgs) :
                              /\ IsToolOutput(msgs[j])
                              /\ msgs[j].tool_call_id = msgs[i].tool_calls[c].id}) = 1
            /\ \E j \in (i + 1)..Len(msgs) :
                 /\ IsToolOutput(msgs[j])
                 /\ msgs[j].tool_call_id = msgs[i].tool_calls[c].id

\* Every tool-call id of an assistant message of msgs is the tool_call_id of a
\* tool message of msgs.
CallsAnswered(msgs) ==
    \A i \in 1..Len(msgs) :
        \A c \in 1..Len(msgs[i].tool_calls) :
            \E j \in 1..Len(msgs) :
                /\ IsToolOutput(msgs[j])
                /\ msgs[j].tool_call_id = msgs[i].tool_calls[c].id

\* C8: when every assistant tool call of the input is answered by exactly one
\* tool message, every tool-call id of an assistant message kept in the output
\* is the tool_call_id of a tool message of the output (base and aggressive).
C8_ToolCallIdsStayPaired ==
    (Compacted /\ WellPaired(cinput)) => CallsAnswered(cmsgs)

OverBudget(msg) ==
    default_token_counter(ContentLen(msg.content)) > config.tool_output_token_budget

\* C9: _truncate_tool_outputs changes a message only if its role is tool or
\* function and its content is over the token budget; such a message with more
\* than truncate_lines lines becomes the notice line for N = lines -
\* truncate_lines followed by exactly its last truncate_lines lines; any other
\* message is returned as it is.
C9_TruncateToolOutputs ==
    /\ Len(ctout) = Len(ctin)
    /\ \A i \in 1..Len(ctin) :
         LET m == ctin[i]
             t == ctout[i]
             lines == Len(m.content)
             keep == config.truncate_lines
         IN /\ ~(IsToolOutput(m) /\ OverBudget(m)) => t = m
            /\ (IsToolOutput(m) /\ OverBudget(m) /\ lines > keep) =>
                 /\ t = [m EXCEPT !.content = t.content]
                 /\ Len(t.content) = keep + 1
                 /\ t.content[1].tag = "lines_truncated"
                 /\ t.content[1].n = <<lines - keep>>
                 /\ \A j \in 1..keep : t.content[j + 1] = m.content[lines - keep + j]

\* The newest k messages of msgs
NewestOf(msgs, k) == SubSeq(msgs, Len(msgs) - k + 1, Len(msgs))

\* The token estimate of the newest k messages of msgs does not exceed
\* preserve_ratio * tokens(msgs)
WithinPreserveRatio(msgs, k) ==
    count_messages_tokens(NewestOf(msgs, k)) * config.preserve_ratio[2]
        <= count_messages_tokens(msgs) * config.preserve_ratio[1]

\* The conversational messages of the list the compaction returned
KeptTail == SelectSeq(cmsgs, IsConversational)

\* C27: the tail kept by a compaction is a contiguous suffix of the
\* conversational messages (as they are after the truncation of tool outputs),
\* in their order: the longest suffix whose summed token estimate does not
\* exceed preserve_ratio * tokens(conversational); the messages before that
\* suffix, and only they, are dropped.
C27_KeptTailIsLongestSuffix ==
    Compacted =>
        LET k == Len(KeptTail) IN
        /\ k <= Len(ctout)
        /\ KeptTail = NewestOf(ctout, k)
        /\ WithinPreserveRatio(ctout, k)
        /\ \A j \in (k + 1)..Len(ctout) : ~WithinPreserveRatio(ctout, j)

\* C27 witness: a compaction that kept two or more messages, dropped two or
\* more, and truncated a tool output among those it kept.
C27_Witness ==
    /\ Compacted
    /\ Len(KeptTail) >= 2
    /\ Len(ctout) - Len(KeptTail) >= 2
    /\ \E i \in 1..Len(ctout) :
         /\ i > Len(ctout) - Len(KeptTail)
         /\ ctout[i] # ctin[i]

\* ============================================================================
\* Claims about the replace tool (checked under SpecReplace)
\* ============================================================================
\* The expected_replacements of the last call, defaulted as the tool does.
Expected ==
    IF rcall.expected_replacements.given THEN rcall.expected_replacements.k ELSE 1

\* C10: a replace call with a non-empty old_string that occurs in an existing
\* file, and expected_replacements = k: if the call succeeds the file then
\* holds exactly original_count - k occurrences of old_string, and if it
\* returns EDIT_OCCURRENCE_MISMATCH the file is byte-identical.
C10_ReplacesExactlyKOrMismatch ==
    (rresponse # NotCalled /\ rpre.exists /\ rcall.old_string # <<>>
       /\ StrCount(rpre.bytes, rcall.old_string) > 0) =>
        /\ rresponse.success =>
             StrCount(file.bytes, rcall.old_string)
               = StrCount(rpre.bytes, rcall.old_string) - Expected
        /\ rresponse.type = "EDIT_OCCURRENCE_MISMATCH" => file = rpre

\* The bytes hold a CRLF line ending.
UsesCRLF(bytes) == \E i \in 1..Len(bytes) : StartsWith(bytes, i, CRLF)

\* Every line feed of the bytes is the second half of a CRLF.
AllCRLF(bytes) ==
    \A i \in 1..Len(bytes) : bytes[i] = "\n" => (i > 1 /\ bytes[i - 1] = "\r")

\* C11: a successful replace on an existing file keeps the file's line endings:
\* a file that used CRLF before the call has CRLF at every line ending after
\* it, and a file that used LF has no CRLF after it.
C11_ReplaceKeepsLineEndings ==
    (rresponse.success /\ rresponse.operation = "update") =>
        IF UsesCRLF(rpre.bytes) THEN AllCRLF(file.bytes) ELSE ~UsesCRLF(file.bytes)

\* ============================================================================
\* Claims about the write_file tool (checked under SpecWrite)
\* ============================================================================
\* C12: after a successful write_file, the file has CRLF at every line ending
\* if the target was a file with CRLF line endings before the call, and has no
\* CRLF in every other case (new file, or file without CRLF).
C12_WriteFileLineEndings ==
    wresponse.success =>
        IF wpre.kind = "file" /\ UsesCRLF(wpre.bytes)
        THEN AllCRLF(wtarget.bytes)
        ELSE ~UsesCRLF(wtarget.bytes)

\* ============================================================================
\* Claims about the read_file tool (checked under SpecRead)
\* ============================================================================
\* The first call read a text file with offset >= 0 and limit >= 1, and the
\* follow-up call was made.
PagedTwice ==
    /\ rdstage = "second"
    /\ rdargs.offset.given /\ rdargs.offset.v >= 0
    /\ rdargs.limit.given /\ rdargs.limit.v >= 1

\* C13: read_file(offset, limit) followed by read_file(offset + lines_shown,
\* limit) on a text file of total_lines lines, offset >= 0 and limit >= 1,
\* return two line ranges that are contiguous and disjoint and together are
\* exactly the lines [offset, min(offset + 2 * limit, total_lines)), none
\* skipped and none repeated.
C13_ReadFilePagesAreContiguous ==
    PagedTwice =>
        LET all_lines == readlines(rdfile.bytes)
            offset == rdargs.offset.v
            limit == rdargs.limit.v
            stop == Min(offset + 2 * limit, Len(all_lines))
        IN /\ rdfirst.start_line = offset
           /\ rdsecond.start_line = offset + rdfirst.lines_shown
           /\ rdfirst.lines_shown = Len(rdfirst.selected_lines)
           /\ rdsecond.lines_shown = Len(rdsecond.selected_lines)
           /\ offset + rdfirst.lines_shown + rdsecond.lines_shown = Max(offset, stop)
           /\ rdfirst.selected_lines \o rdsecond.selected_lines
                = SubSeq(all_lines, offset + 1, stop)

\* C13 witness: two pages of a file, both non-empty, the first one truncated
\* and read from an offset past the first line.
C13_Witness ==
    /\ PagedTwice
    /\ rdargs.offset.v >= 1
    /\ rdfirst.is_truncated
    /\ rdfirst.lines_shown >= 1
    /\ rdsecond.lines_shown >= 1
    /\ rdsecond.next_offset = rdfirst.next_offset + rdsecond.lines_shown

\* ============================================================================
\* Claims about the list_directory tool (checked under SpecList)
\* ============================================================================
\* The limit the caller asked for: 100 when omitted, and no entries for a
\* limit below zero.
RequestedLimit ==
    IF lsargs.limit.given THEN Max(lsargs.limit.v, 0) ELSE DEFAULT_MAX_ENTRIES

\* C14: list_directory never returns more than 500 entries and never more
\* than the requested limit (100 when omitted), whatever limit, offset and
\* directory size.
C14_ListDirectoryIsCapped ==
    /\ Len(lsresult.entries) <= ABSOLUTE_MAX_ENTRIES
    /\ Len(lsresult.entries) <= RequestedLimit

\* ============================================================================
\* Claims about search_file_content
\* ============================================================================
\* Where the path rel leads from the directory root, as a list of directory
\* names below "/": each "." stays, each ".." climbs one level, every other
\* name descends; an absolute rel starts over from "/".
RECURSIVE Resolve(_, _)
Resolve(location, names) ==
    IF names = <<>> THEN location
    ELSE Resolve(IF Head(names) \in {<<>>, <<".">>} THEN location
                 ELSE IF Head(names) = DOTDOT
                      THEN SubSeq(location, 1, Len(location) - 1)
                 ELSE Append(location, Head(names)),
                 Tail(names))

Location(root, rel) ==
    Resolve(IF isabs(rel) THEN <<>> ELSE Resolve(<<>>, Split(root, "/")),
            Split(rel, "/"))

Inside(root, rel) ==
    LET top == Location(root, <<>>)
        loc == Location(root, rel)
    IN Len(top) <= Len(loc) /\ SubSeq(loc, 1, Len(top)) = top

\* C15: every match search_file_content returns, whichever of git grep, grep
\* and the walker produced it, has a file path that leads to a place inside the
\* search root.
C15_MatchesStayInsideRoot ==
    \A k \in 1..Len(srresult.matches) :
        Inside(srenv.search_path, srresult.matches[k].filePath)

\* git grep or grep printed two lines, the first with a path that leaves the
\* root and the second with a path that stays, and the call returned matches.
C15_Witness ==
    /\ srresult.type = "Found"
    /\ srresult.strategy_used \in {"git grep", "system grep"}
    /\ Len(srenv.stdout) = 2
    /\ parse_grep_line_NoSecurityCheck(srenv.stdout[1], srenv.search_path).parsed
    /\ ~Inside(srenv.search_path,
               parse_grep_line_NoSecurityCheck(srenv.stdout[1],
                                               srenv.search_path).filePath)
    /\ parse_grep_line(srenv.stdout[2], srenv.search_path).parsed

\* How many matches the strategy that answered had to give: the lines of
\* stdout that parse, or the matching lines of the files the walker reads.
AvailableMatches ==
    LET unlimited == Len(srenv.stdout) + Len(srenv.tree) * (DEFAULT_TOTAL_MAX_MATCHES + 2) + 1
    IN IF srresult.strategy_used \in {"git grep", "system grep"}
       THEN Len(CollectMatches(srenv.stdout, srenv.search_path, unlimited))
       ELSE Len(WalkFiles(srenv.tree, srenv.search_path, srenv.include, unlimited, <<>>))

\* C16: search_file_content returns at most 500 matches, and reports the result
\* as truncated exactly when there were matches beyond those it returned.
C16_SearchIsCappedAndTruncationExact ==
    srresult.type \in {"Found", "No matches found"} =>
        /\ Len(srresult.matches) <= DEFAULT_TOTAL_MAX_MATCHES
        /\ srresult.was_truncated <=> AvailableMatches > Len(srresult.matches)

\* ============================================================================
\* Claims about write_todos
\* ============================================================================
TodoCalled == tdresult # TodoNotCalled

AtMostOneInProgress ==
    Cardinality({i \in 1..Len(tdtodos) : tdtodos[i].status = "in_progress"}) <= 1

EveryStatusLegal ==
    \A i \in 1..Len(tdtodos) : tdtodos[i].status \in VALID_STATUSES

\* C17: write_todos accepts the list exactly when at most one entry is
\* in_progress, every entry has a non-empty description and every status is
\* one of pending, in_progress, completed, cancelled.
C17_WriteTodosAcceptsIff ==
    TodoCalled =>
        (tdresult.success <=>
            /\ AtMostOneInProgress
            /\ \A i \in 1..Len(tdtodos) :
                  tdtodos[i].is_dict /\ tdtodos[i].description # <<>>
            /\ EveryStatusLegal)

\* C17 as the code has it: a description counts as empty when nothing is left
\* of it once the whitespace around it is stripped.
C17_WriteTodosAcceptsIffStripped ==
    TodoCalled =>
        (tdresult.success <=>
            /\ AtMostOneInProgress
            /\ \A i \in 1..Len(tdtodos) :
                  tdtodos[i].is_dict /\ Strip(tdtodos[i].description) # <<>>
            /\ EveryStatusLegal)

\* A list of two entries, one of them in_progress, was accepted.
C17_Witness ==
    /\ tdresult.success
    /\ tdresult.count = 2
    /\ tdresult.summary["in_progress"] = 1

\* ============================================================================
\* Claims about read_full_structure
\* ============================================================================
\* The file and folder nodes of the tree hanging from the node at path: its
\* files, its subfolders (ignored placeholders too), and what hangs from each
\* subfolder.
RECURSIVE NodesBelow(_)
NodesBelow(path) ==
    LET node == fsnodes[path]
        HangingFrom[k \in 0..Len(node.sub_folders)] ==
            IF k = 0 THEN 0
            ELSE HangingFrom[k - 1] + 1
                   + NodesBelow(Append(path, node.sub_folders[k].name))
    IN Len(node.files) + HangingFrom[Len(node.sub_folders)]

\* C18: the tree read_full_structure returns holds at most max_items file and
\* folder nodes over all its levels, the root not counted.
C18_TreeHoldsAtMostMaxItems ==
    fsphase = "returned" => NodesBelow(<<>>) <= fsargs.max_items

\* A returned tree that is full: it holds max_items nodes on two levels, an
\* ignored placeholder among them, and a folder of it left subfolders out.
C18_Witness ==
    /\ fsphase = "returned"
    /\ fsargs.max_items >= 3
    /\ NodesBelow(<<>>) = fsargs.max_items
    /\ \E p \in DOMAIN fsnodes : fsnodes[p].is_ignored
    /\ \E p \in DOMAIN fsnodes : p # <<>> /\ fsnodes[p].has_more_subfolders

MemoryLinesOf(target) ==
    IF target.kind # "file" THEN <<>>
    ELSE SplitLines(ReadText(target.bytes))

IsSectionHeader(line) ==
    StartsWith(line, 1, <<"#", "#", " ">>) \/ StartsWith(line, 1, MEMORY_SECTION_HEADER)

\* Where the memory section of a file begins and ends: the first line that is
\* the canonical header, and the next line that opens a section (one past the
\* last line when there is none); 0 when no line is the canonical header.
HeaderLine(lines) ==
    LET at == {i \in 1..Len(lines) : lines[i] = MEMORY_SECTION_HEADER}
    IN IF at = {} THEN 0 ELSE CHOOSE i \in at : \A j \in at : i <= j

SectionEnd(lines) ==
    LET next == {i \in (HeaderLine(lines) + 1)..Len(lines) : IsSectionHeader(lines[i])}
    IN IF next = {} THEN Len(lines) + 1 ELSE CHOOSE i \in next : \A j \in next : i <= j

IsBullet(line) == StartsWith(line, 1, <<"-", " ">>) \/ StartsWith(LStrip(line), 1, <<"-", " ">>)

\* The bullets of the memory section, in order
MemoryBullets(target) ==
    LET lines == MemoryLinesOf(target) IN
    IF HeaderLine(lines) = 0 THEN <<>>
    ELSE SelectSeq(SubSeq(lines, HeaderLine(lines) + 1, SectionEnd(lines) - 1), IsBullet)

\* The sections after the memory section, as lines without the empty lines
LaterSections(target) ==
    LET lines == MemoryLinesOf(target) IN
    IF HeaderLine(lines) = 0 THEN <<>>
    ELSE SelectSeq(SubSeq(lines, SectionEnd(lines), Len(lines)), LAMBDA l : l # <<>>)

LastCall == memcalls[Len(memcalls)]

Remembered(k) ==
    /\ k \in 1..Len(memcalls)
    /\ ~memcalls[k].modified.given
    /\ Strip(memcalls[k].fact) # <<>>

\* C20: after save_memory(f) with a non-empty fact, the bullet of f ("- " and
\* the fact as the tool cleans it) is the last bullet of the section under the
\* canonical header, the bullets that were there are kept before it, and the
\* sections after the memory section are kept; saving the same fact twice
\* leaves two identical bullets at the end of the section.
C20_SaveMemoryAppendsBullet ==
    Remembered(Len(memcalls)) =>
        LET bullets == MemoryBullets(memfile)
            item == <<"-", " ">> \o processed_text(LastCall.fact)
        IN /\ bullets # <<>>
           /\ Last(bullets) = item
           /\ SubSeq(bullets, 1, Len(bullets) - 1) = MemoryBullets(mempre)
           /\ LaterSections(memfile) = LaterSections(mempre)
           /\ (/\ Len(memcalls) = 2
               /\ Remembered(1)
               /\ memcalls[1].fact = LastCall.fact)
                 => /\ Len(bullets) >= 2
                    /\ bullets[Len(bullets) - 1] = item

\* ============================================================================
\* Claims about the tool functions as callables
\* ============================================================================
\* C21: a tool call never raises, and an exception met while the tool runs
\* comes back as a returned result whose error has a message and a type.
C21_ToolsAreTotal ==
    tlout.outcome # "not called" =>
        /\ tlout.outcome = "returned"
        /\ tlcall.fault # "none" =>
             /\ tlout.error.given
             /\ tlout.error.message
             /\ tlout.error.type # ""

\* ============================================================================
\* Claims about the size check of read_file
\* ============================================================================
\* C22: read_file on a file of 10 MiB (10 * 1024 * 1024 bytes) returns the
\* error FILE_TOO_LARGE and no content of the file.
C22_TenMiBIsTooLarge ==
    (/\ szresult.called
     /\ szfile.kind = "file"
     /\ szfile.size = 10 * 1024 * 1024)
        => /\ szresult.error = "FILE_TOO_LARGE"
           /\ szresult.content = "none"

\* ============================================================================
\* Claims about the order of the strategies of replace
\* ============================================================================
\* The occurrences each strategy finds in the content of the call
ExactOccurrences == StrCount(cscall.content, NormalizeNewlines(cscall.old_string))

FlexibleOccurrences ==
    calculate_flexible_replacement(cscall.content, cscall.old_string,
                                   cscall.new_string).occurrences

\* The line starts where the pattern of the regex strategy matches
RegexMatches ==
    LET tokens == SplitWords(SpaceDelimiters(NormalizeNewlines(cscall.old_string)))
    IN IF tokens = <<>> THEN {}
       ELSE {p \in LineStarts(cscall.content) :
               MatchTokens(cscall.content, p, tokens) # 0}

\* The text of the content after the first match of the regex strategy
AfterFirstRegexMatch ==
    LET tokens == SplitWords(SpaceDelimiters(NormalizeNewlines(cscall.old_string)))
        start == CHOOSE p \in RegexMatches : \A q \in RegexMatches : p <= q
    IN SubSeq(cscall.content, MatchTokens(cscall.content, start, tokens),
              Len(cscall.content))

IsPrefixOf(s, t) == Len(s) <= Len(t) /\ SubSeq(t, 1, Len(s)) = s

IsSuffixOf(s, t) == Len(s) <= Len(t) /\ SubSeq(t, Len(t) - Len(s) + 1, Len(t)) = s

\* C23: the strategies are tried in the order exact, flexible, regex; the
\* result used is that of the first strategy with at least one occurrence; the
\* regex strategy is tried only when the other two found none, and it replaces
\* one match and leaves the text after that match as it was.
C23_StrategiesInOrder ==
    /\ IsPrefixOf(cstried, <<"exact", "flexible", "regex">>)
    /\ Len(cstried) >= 2 => ExactOccurrences = 0
    /\ Len(cstried) = 3 => FlexibleOccurrences = 0
    /\ csdone =>
         /\ csstrategy = cstried[Len(cstried)]
         /\ csstrategy = "exact" =>
              ExactOccurrences >= 1 /\ csresult.occurrences = ExactOccurrences
         /\ csstrategy = "flexible" =>
              FlexibleOccurrences >= 1 /\ csresult.occurrences = FlexibleOccurrences
         /\ csstrategy = "regex" =>
              /\ csresult.found <=> RegexMatches # {}
              /\ csresult.found =>
                   /\ csresult.occurrences = 1
                   /\ IsSuffixOf(RStripNewlines(AfterFirstRegexMatch),
                                 RStripNewlines(csresult.modified))

\* The regex strategy was used on a content with two matches, and the second
\* match is still there
C23_Witness ==
    /\ csdone
    /\ cstried = <<"exact", "flexible", "regex">>
    /\ csresult.found
    /\ Cardinality(RegexMatches) = 2
    /\ RStripNewlines(AfterFirstRegexMatch) # <<>>

\* ============================================================================
\* Claims about the order of the strategies of search_file_content
\* ============================================================================
\* What each strategy finds in the environment of the call
GitGrepFinds ==
    CollectMatches(scenv.git_stdout, scenv.search_path, DEFAULT_TOTAL_MAX_MATCHES)

SystemGrepFinds ==
    CollectMatches(scenv.grep_stdout, scenv.search_path, DEFAULT_TOTAL_MAX_MATCHES)

WalkerFinds == python_grep(GitEnv(scenv), DEFAULT_TOTAL_MAX_MATCHES)

\* C24: one call returns the matches of exactly one strategy: of git grep when
\* git grep ran; of system grep only when git grep was not to be had or failed;
\* of the walker only when that holds of system grep too.  No strategy is
\* called after one that ran, even when it found nothing.
C24_OneStrategyPerCall ==
    /\ IsPrefixOf(scran, <<"git grep", "system grep", "python fallback">>)
    /\ Len(scran) >= 2 => scenv.git # "ran"
    /\ Len(scran) = 3 => scenv.grep # "ran"
    /\ scdone =>
         /\ scmatches.ran
         /\ scstrategy = Last(scran)
         /\ scenv.git = "ran" =>
              scstrategy = "git grep" /\ scmatches.matches = GitGrepFinds
         /\ (scenv.git # "ran" /\ scenv.grep = "ran") =>
              scstrategy = "system grep" /\ scmatches.matches = SystemGrepFinds
         /\ (scenv.git # "ran" /\ scenv.grep # "ran") =>
              scstrategy = "python fallback" /\ scmatches.matches = WalkerFinds

\* git grep ran and found nothing where grep and the walker would have found
\* a match, and the call ended with no match
C24_Witness ==
    /\ scdone
    /\ scran = <<"git grep">>
    /\ scmatches.matches = <<>>
    /\ scenv.grep = "ran"
    /\ SystemGrepFinds # <<>>
    /\ WalkerFinds # <<>>

\* ============================================================================
\* Claims about what read_full_structure leaves out
\* ============================================================================
\* The files and the folders a folder holds on disk, in sorted order
FilesOnDisk(path) ==
    SelectSeq(listdir(fstree, path), LAMBDA n : isfile(fstree, Append(path, n)))

FoldersOnDisk(path) ==
    SelectSeq(listdir(fstree, path), LAMBDA n : isdir(fstree, Append(path, n)))

\* The node of the folder shows all that the folder holds
AllEmitted(path) ==
    /\ fsnodes[path].files = FilesOnDisk(path)
    /\ [k \in 1..Len(fsnodes[path].sub_folders) |-> fsnodes[path].sub_folders[k].name]
         = FoldersOnDisk(path)

OmissionsMarked ==
    fsphase = "returned" =>
        \A path \in DOMAIN fsnodes :
            (~fsnodes[path].is_ignored /\ ~AllEmitted(path))
                => (fsnodes[path].has_more_files \/ fsnodes[path].has_more_subfolders)

\* An iteration that starts with the count at max_items adds no node
NoDescentWhenExhausted ==
    (fsphase = "loop" /\ fscount >= fsargs.max_items) => fsnodes' = fsnodes

\* C25: once the count has reached max_items no folder is read any more, and
\* in the returned tree every folder node that is not an ignored placeholder
\* and does not show all the files and folders it holds on disk has
\* has_more_files or has_more_subfolders set.
C25_OmittedContentIsMarked == []OmissionsMarked /\ [][NoDescentWhenExhausted]_vars

\* ============================================================================
\* Claims about concurrent save_memory calls
\* ============================================================================
\* C26: when two save_memory calls on one file have both returned, the file
\* holds exactly the content computed by the call that wrote last, never a
\* mixture of the two computed contents.
C26_LastWriterWins ==
    (\A p \in Callers : mrpc[p] = "returned") =>
        mrfile = RegularFile(mrnew[mrlast])

\* ============================================================================
\* Claims about paging with list_directory (checked under SpecListPages)
\* ============================================================================
DirsFirstByName(a, b) ==
    \/ a.is_dir /\ ~b.is_dir
    \/ a.is_dir = b.is_dir /\ a.name < b.name

IsListed(e) == ~(pgargs.ignore /\ e.matches)

\* The ordered listing: the entries not ignored, directories first, then
\* files, each by name
OrderedListing == SortSeq(SelectSeq(pgdir.entries, IsListed), DirsFirstByName)

\* The limit of the calls: 100 when omitted
PageLimit == IF pgargs.limit.given THEN pgargs.limit.v ELSE DEFAULT_MAX_ENTRIES

\* The entries at the positions lo <= p < hi of listing, positions counted
\* from 0
Window(listing, lo, hi) == SubSeq(listing, Max(lo, 0) + 1, Min(hi, Len(listing)))

\* The latest call returned the window [offset, offset + limit) and attached
\* next_offset = offset + limit exactly when entries remain after the window
WindowReturned(listing, offset, limit) ==
    /\ pgresult.entries = Window(listing, offset, offset + limit)
    /\ pgresult.truncated <=> offset + limit < Len(listing)
    /\ pgresult.truncated => pgresult.next_offset = offset + limit

ReturnsTheWindow ==
    pgcalls >= 1 => WindowReturned(OrderedListing, pgargs.offset, PageLimit)

\* The pages so far are the listing from the first offset on, each entry once
\* and in order; a next_offset lies past the offset of the call, and once no
\* next_offset is attached the listing has been visited to its end
VisitedInOrder(listing, offset, limit) ==
    /\ pgvisited = Window(listing, pgfirst, offset + limit)
    /\ pgresult.truncated => pgresult.next_offset > offset
    /\ ~pgresult.truncated => pgvisited = Window(listing, pgfirst, Len(listing))

VisitsEveryEntryOnce ==
    (pgcalls >= 1 /\ PageLimit >= 1) =>
        VisitedInOrder(OrderedListing, pgargs.offset, PageLimit)

\* C28: list_directory returns exactly the entries at positions
\* [offset, offset + limit) of the ordered listing (directories first, then
\* files, each sorted) and attaches next_offset = offset + limit if and only if
\* entries remain after the window; following next_offset with limit >= 1
\* visits every entry exactly once, in order, and ends.
C28_WindowAndNextOffset ==
    /\ ReturnsTheWindow
    /\ VisitsEveryEntryOnce

\* ============================================================================
\* Claims about replace and the filesystem (checked under SpecReplaceDisk)
\* ============================================================================
\* The error types of the checks replace makes before it writes
ValidationErrors ==
    {"EDIT_NO_CHANGE", "FILE_NOT_FOUND", "FILE_EXISTS",
     "EDIT_NO_OCCURRENCE_FOUND", "EDIT_OCCURRENCE_MISMATCH"}

\* C29: when replace returns EDIT_NO_CHANGE, FILE_NOT_FOUND, the error for
\* creating a file that exists, EDIT_NO_OCCURRENCE_FOUND or
\* EDIT_OCCURRENCE_MISMATCH, the target file is as it was before the call and
\* neither a file nor a directory has been created.
C29_ErrorsLeaveFilesystemUnchanged ==
    dkresponse.type \in ValidationErrors => dkfs = dkpre

\* C29 witness: EDIT_OCCURRENCE_MISMATCH on a file where old_string was found
\* twice and one replacement was expected.
C29_Witness ==
    /\ dkresponse.type = "EDIT_OCCURRENCE_MISMATCH"
    /\ dkresponse.occurrences = 2
    /\ ~dkcall.expected_replacements.given
    /\ dkpre.file.exists /\ dkpre.file.bytes # <<>>
    /\ dkfs = dkpre

\* ============================================================================
\* Claims about the hooks of CompleteTaskMiddleware (checked under SpecHooks)
\* ============================================================================
\* C30: before_model injects the grace warning only if the most recent
\* after_model call saw a response with no tool calls and the after_model call
\* before that did not; after a response with complete_task or any other tool
\* call the next before_model injects nothing.
C30_WarningOnlyAfterFirstSilentTurn ==
    (hklast = "before_model" /\ hkwarned) =>
        /\ hkseen # <<>>
        /\ Last(hkseen) = "none"
        /\ Len(hkseen) >= 2 => hkseen[Len(hkseen) - 1] # "none"

====
